---- MODULE Spec2Model ----
(***************************************************************************)
(* Loyalty system: the order store and the balance ledger (DBStorage, a    *)
(* PostgreSQL database used at READ COMMITTED), the registration, order    *)
(* submission and withdrawal handlers, and the per-order polling goroutine *)
(* started by LoyaltySystemService.PollOrderStatus (bounded variant, 2     *)
(* minute deadline, 5 second ticker).                                      *)
(*                                                                         *)
(* The variables users, orders, balance, total_spent and ledger hold the   *)
(* COMMITTED rows of the tables users, orders, user_balance and            *)
(* loyalty_transactions.  A transaction's uncommitted writes are kept in   *)
(* the locals of the process that runs it together with the row locks it   *)
(* holds; they reach the committed rows in its commit step and vanish in a *)
(* rollback.  Any interleaving of the steps of the handlers and of the     *)
(* goroutines is a behaviour, and the passing of a deadline and the        *)
(* arrival of a tick are steps of their own.  Most specifications are      *)
(* untimed (now stays 0); SpecTimed, SpecWaiting and SpecTransient follow  *)
(* one goroutine against a clock in seconds that fires its ticker, its     *)
(* deadline and the end of its sleep on time, and SpecSequential does so   *)
(* with http.Get split into its request and its response.  SpecReports     *)
(* lets the accrual service report any status with or without an accrual.  *)
(* SpecStore calls the two update operations of the store directly,       *)
(* SpecRequests and SpecRegister send requests to the handlers, and        *)
(* SpecLuhn applies isValidLuhn to byte strings.                           *)
(***************************************************************************)
EXTENDS Integers, Sequences, FiniteSets, Bags, TLC

\* ------------------------------------------------------------------ bounds
\* largest accrual the external service reports
MaxAccrual == 1
\* largest sum a withdrawal request asks for
MaxSum == 1
\* statements of the database that fail for a reason of the database itself
MaxFailures == 1
\* longest string of the bytes +, -, 0..9 and a given to isValidLuhn (next to
\* two strings of twenty digits)
MaxLen == 3
\* the seconds a behaviour is followed after the first goroutine started
MaxTime == 150

\* ------------------------------------------------------- identifier sets
Users == {"u1", "u2"}

\* bodies of POST /api/user/orders requests of well-behaved clients, bodies
\* that carry a sign, and the values of the Retry-After header of a 429
\* response ("" is a missing header)
Bodies == {"18", "26", "12", ""}
SignedBodies == {"+7", "-7"}
RetryHeaders == {"", "2", "7", "x", "-1"}

\* the bytes a string consists of
Bytes(b) ==
  CASE b = "18" -> <<49, 56>>
    [] b = "26" -> <<50, 54>>
    [] b = "12" -> <<49, 50>>
    [] b = "+7" -> <<43, 55>>
    [] b = "-7" -> <<45, 55>>
    [] b = "2" -> <<50>>
    [] b = "7" -> <<55>>
    [] b = "x" -> <<120>>
    [] b = "-1" -> <<45, 49>>
    [] OTHER -> <<>>

\* the digits of 1<<63 - 1 = 9223372036854775807 and of 1<<63, the largest
\* values of an int and of the negation of an int (64 bit platform)
MaxIntDigits == <<57, 50, 50, 51, 51, 55, 50, 48, 51, 54, 56, 53, 52, 55, 55, 53, 56, 48, 55>>
MinIntDigits == <<57, 50, 50, 51, 51, 55, 50, 48, 51, 54, 56, 53, 52, 55, 55, 53, 56, 48, 56>>

RECURSIVE Significant(_)
\* a digit string without its leading zeros
Significant(digits) ==
  IF Len(digits) > 0 /\ digits[1] = 48 THEN Significant(Tail(digits)) ELSE digits

\* the number written by digits is at most the number written by limit
AtMost(digits, limit) ==
  LET sig == Significant(digits)
  IN  \/ Len(sig) < Len(limit)
      \/ /\ Len(sig) = Len(limit)
         /\ \/ sig = limit
            \/ \E i \in 1..Len(sig) :
                 /\ sig[i] < limit[i]
                 /\ \A j \in 1..(i - 1) : sig[j] = limit[j]

\* strconv.Atoi(s) returns no error: an optional sign, then decimal digits
\* that write a value in the range of int
isIntegerAtoi(s) ==
  LET digits == IF Len(s) > 0 /\ s[1] \in {43, 45} THEN Tail(s) ELSE s
  IN  /\ Len(digits) > 0
      /\ \A i \in 1..Len(digits) : digits[i] \in 48..57
      /\ AtMost(digits, IF s[1] = 45 THEN MinIntDigits ELSE MaxIntDigits)

RECURSIVE DigitsValue(_)
DigitsValue(digits) ==
  IF Len(digits) = 0 THEN 0
  ELSE 10 * DigitsValue(SubSeq(digits, 1, Len(digits) - 1))
         + (digits[Len(digits)] - 48)

\* the int strconv.Atoi(s) returns when it returns no error
Atoi(s) ==
  IF s[1] = 45 THEN 0 - DigitsValue(Tail(s))
  ELSE IF s[1] = 43 THEN DigitsValue(Tail(s))
  ELSE DigitsValue(s)

RECURSIVE LuhnSum(_, _, _)
\* the loop of isValidLuhn from index i down to the first byte: number[i] - '0'
\* is a byte subtraction, every second digit is doubled and reduced by 9
LuhnSum(number, i, doubleDigit) ==
  IF i = 0 THEN 0
  ELSE LET digit == (number[i] - 48) % 256
           doubled == IF doubleDigit
                        THEN IF 2 * digit > 9 THEN 2 * digit - 9 ELSE 2 * digit
                        ELSE digit
       IN  doubled + LuhnSum(number, i - 1, ~doubleDigit)

isValidLuhn(number) ==
  isIntegerAtoi(number) /\ LuhnSum(number, Len(number), FALSE) % 10 = 0

\* the arguments of the calls of isValidLuhn on its own
LuhnBytes == {43, 45, 97} \cup 48..57
LongNumbers ==
  {<<49, 48, 48, 48, 48, 48, 48, 48, 48, 48, 48, 48, 48, 48, 48, 48, 48, 48, 48, 56>>,
   <<48, 48, 48, 48, 48, 48, 48, 48, 48, 48, 48, 48, 48, 48, 48, 48, 48, 48, 49, 56>>}
LuhnInputs == UNION {[1..n -> LuhnBytes] : n \in 0..MaxLen} \cup LongNumbers

\* the order numbers SendOrderHandler lets through
OrderNumbers == {b \in Bodies \cup SignedBodies : isValidLuhn(Bytes(b))}
\* concurrent POST /api/user/orders requests
HandlerSeq == <<"h1", "h2">>
Handlers == {HandlerSeq[i] : i \in DOMAIN HandlerSeq}
\* callers of PollOrderStatus other than SendOrderHandler
Callers == {"x1"}
\* one goroutine per call of PollOrderStatus
Workers == Handlers \cup Callers
\* concurrent POST /api/user/register requests
RegistrationSeq == <<"r1", "r2">>
Registrations == {RegistrationSeq[i] : i \in DOMAIN RegistrationSeq}
\* concurrent POST /api/user/balance/withdraw requests
DebitSeq == <<"d1", "d2">>
Debits == {DebitSeq[i] : i \in DOMAIN DebitSeq}

NoOwner == "none"
NoOrder == [user |-> "none", status |-> "none", accrual |-> {}]
Background == "background"

\* a NULL accrual is the empty set, a reported accrual a is {a}
Accruals == {{}} \cup {{a} : a \in 0..MaxAccrual}
Statuses == {"NEW", "PROCESSING", "INVALID", "PROCESSED"}

VARIABLES
  users,        \* table users: the registered usernames
  userRows,     \* table users: how many rows carry the username
  balanceRows,  \* table user_balance: how many rows belong to the user
  orders,       \* table orders: order number -> row (NoOrder: no row)
  orderRows,    \* table orders: how many rows carry the order number
  balance,      \* user_balance.balance, by user
  total_spent,  \* user_balance.total_spent, by user
  ledger,       \* table loyalty_transactions: a bag of rows
  ordLock,      \* row lock of an orders row: the transaction holding it
  balLock,      \* row lock of a user_balance row
  faults,       \* statements the database will still fail on its own
  dpc, dUser, dOrder, dSum, dCur, dRes,  \* WithdrawPointsHandler/SpendPoints
  rpc, rUser, rRes,                      \* SignUpHandler/SetUser
  hpc, hUser, hOrder, hRes, reqDone,     \* SendOrderHandler/AddOrder
  wpc, wOrder, wCtx, wResp, wUserID, wErr, \* PollOrderStatus goroutine
  expired,      \* pollCtx.Done() is closed: the goroutine's deadline has passed
  tick,         \* ticker.C holds a tick (a channel of capacity 1)
  now,          \* the time in seconds
  wStart,       \* when the goroutine built pollCtx and its ticker
  nextTick,     \* when the goroutine's ticker sends its next tick
  rlAt,         \* when the goroutine got its last 429 response
  rlHdr,        \* the Retry-After header of that response
  inFlight,     \* requests of the goroutine the accrual service has not answered
  lNumber,      \* isValidLuhn: the argument of a call
  lResult       \* isValidLuhn: what the call returned

dbVars == <<users, userRows, balanceRows, orders, orderRows, balance, total_spent, ledger>>
lockVars == <<ordLock, balLock>>
debitVars == <<dpc, dUser, dOrder, dSum, dCur, dRes>>
regVars == <<rpc, rUser, rRes>>
handlerVars == <<hpc, hUser, hOrder, hRes, reqDone>>
workerVars == <<wpc, wOrder, wCtx, wResp, wUserID, wErr, expired, tick>>
clockVars == <<now, wStart, nextTick, rlAt, rlHdr, inFlight>>
callVars == <<lNumber, lResult>>
vars == <<dbVars, lockVars, faults, debitVars, regVars, handlerVars, workerVars,
          clockVars, callVars>>

\* ---------------------------------------------------------------- helpers
RECURSIVE SumOver(_, _)
\* sum of points times copies over the set S of distinct rows of the bag log
SumOver(log, S) ==
  IF S = {} THEN 0
  ELSE LET r == CHOOSE x \in S : TRUE
       IN  r.points * CopiesIn(r, log) + SumOver(log, S \ {r})

\* sum of the points of the transactions of user u of type t in log
SumPoints(log, u, t) ==
  SumOver(log, {r \in BagToSet(log) : r.user = u /\ r.type = t})

RECURSIVE CountOver(_, _)
CountOver(log, S) ==
  IF S = {} THEN 0
  ELSE LET r == CHOOSE x \in S : TRUE
       IN  CopiesIn(r, log) + CountOver(log, S \ {r})

\* number of transactions of type t naming order number o
CountTx(log, o, t) ==
  CountOver(log, {r \in BagToSet(log) : r.order = o /\ r.type = t})

\* how a statement issued under a context can end: "ctx" when the context is
\* already cancelled, otherwise it runs ("ok") or the database fails ("dberr")
StmtOutcomes(cancelled) ==
  IF cancelled THEN {"ctx"}
  ELSE IF faults > 0 THEN {"ok", "dberr"} ELSE {"ok"}

CountFailure(outcome) ==
  faults' = IF outcome = "dberr" THEN faults - 1 ELSE faults

\* the order number the withdrawal request d names when the server is used
\* with well-formed requests: a Luhn-valid number of its own
WithdrawOrder(d) == IF d = "d1" THEN "18" ELSE "26"

\* processes and locks before any request
Idle ==
  /\ ordLock = [o \in OrderNumbers |-> NoOwner]
  /\ balLock = [u \in Users |-> NoOwner]
  /\ dpc = [d \in Debits |-> "idle"]
  /\ dUser = [d \in Debits |-> "none"]
  /\ dOrder = [d \in Debits |-> "none"]
  /\ dSum = [d \in Debits |-> 0]
  /\ dCur = [d \in Debits |-> 0]
  /\ dRes = [d \in Debits |-> "none"]
  /\ rpc = [r \in Registrations |-> "idle"]
  /\ rUser = [r \in Registrations |-> "none"]
  /\ rRes = [r \in Registrations |-> "none"]
  /\ hpc = [h \in Handlers |-> "idle"]
  /\ hUser = [h \in Handlers |-> "none"]
  /\ hOrder = [h \in Handlers |-> "none"]
  /\ hRes = [h \in Handlers |-> "none"]
  /\ reqDone = [h \in Handlers |-> FALSE]
  /\ wpc = [w \in Workers |-> "idle"]
  /\ wOrder = [w \in Workers |-> "none"]
  /\ wCtx = [w \in Workers |-> Background]
  /\ wResp = [w \in Workers |-> [status |-> "none", accrual |-> {}]]
  /\ wUserID = [w \in Workers |-> "none"]
  /\ wErr = [w \in Workers |-> "none"]
  /\ expired = [w \in Workers |-> FALSE]
  /\ tick = [w \in Workers |-> FALSE]
  /\ now = 0
  /\ wStart = [w \in Workers |-> 0]
  /\ nextTick = [w \in Workers |-> 0]
  /\ rlAt = [w \in Workers |-> 0]
  /\ rlHdr = [w \in Workers |-> ""]
  /\ inFlight = [w \in Workers |-> 0]

\* no call of isValidLuhn on its own
NoCall == lNumber = <<>> /\ lResult = "none"

\* the database after the registration of u1: one user, one balance row
\* (0, 0), no order, no transaction
OneUser ==
  /\ users = {"u1"}
  /\ userRows = [u \in Users |-> IF u = "u1" THEN 1 ELSE 0]
  /\ balanceRows = [u \in Users |-> IF u = "u1" THEN 1 ELSE 0]
  /\ orders = [o \in OrderNumbers |-> NoOrder]
  /\ orderRows = [o \in OrderNumbers |-> 0]
  /\ balance = [u \in Users |-> 0]
  /\ total_spent = [u \in Users |-> 0]
  /\ ledger = EmptyBag

Init == OneUser /\ Idle /\ NoCall /\ faults = 0

\* the database after u1 also submitted order number 18 and the goroutine of
\* that order gave up at its deadline: the order is stored as NEW
OneOrder ==
  /\ users = {"u1"}
  /\ userRows = [u \in Users |-> IF u = "u1" THEN 1 ELSE 0]
  /\ balanceRows = [u \in Users |-> IF u = "u1" THEN 1 ELSE 0]
  /\ orders = [o \in OrderNumbers |->
                 IF o = "18" THEN [user |-> "u1", status |-> "NEW", accrual |-> {}]
                             ELSE NoOrder]
  /\ orderRows = [o \in OrderNumbers |-> IF o = "18" THEN 1 ELSE 0]
  /\ balance = [u \in Users |-> 0]
  /\ total_spent = [u \in Users |-> 0]
  /\ ledger = EmptyBag

InitOrders == OneOrder /\ Idle /\ NoCall /\ faults = 0

\* the database after the migration: no user, no balance row, no order
NoUser ==
  /\ users = {}
  /\ userRows = [u \in Users |-> 0]
  /\ balanceRows = [u \in Users |-> 0]
  /\ orders = [o \in OrderNumbers |-> NoOrder]
  /\ orderRows = [o \in OrderNumbers |-> 0]
  /\ balance = [u \in Users |-> 0]
  /\ total_spent = [u \in Users |-> 0]
  /\ ledger = EmptyBag

\* the same start with a database that fails some statements
InitFaulty == OneUser /\ Idle /\ NoCall /\ faults = MaxFailures

\* ------------------------------------------- WithdrawPointsHandler, SpendPoints
\* POST /api/user/balance/withdraw with a token of user u, order b and sum s:
\* withdrawal.Order == "" || withdrawal.Sum <= 0 is answered 400, then an
\* order that fails isValidLuhn 422; otherwise SpendPoints begins its
\* transaction
WithdrawPointsHandler(d, u, b, s) ==
  /\ dpc[d] = "idle"
  /\ dUser' = [dUser EXCEPT ![d] = u]
  /\ dOrder' = [dOrder EXCEPT ![d] = b]
  /\ dSum' = [dSum EXCEPT ![d] = s]
  /\ IF Len(Bytes(b)) = 0 \/ s <= 0
       THEN /\ dpc' = [dpc EXCEPT ![d] = "done"]
            /\ dRes' = [dRes EXCEPT ![d] = "400"]
       ELSE IF ~isValidLuhn(Bytes(b))
       THEN /\ dpc' = [dpc EXCEPT ![d] = "done"]
            /\ dRes' = [dRes EXCEPT ![d] = "422"]
       ELSE /\ dpc' = [dpc EXCEPT ![d] = "select"]
            /\ dRes' = dRes
  /\ UNCHANGED <<dbVars, lockVars, faults, dCur, regVars, clockVars, callVars, handlerVars, workerVars>>

\* SpendSelect without the sufficiency check
SpendSelectNoCheck(d) ==
  /\ dpc[d] = "select"
  /\ \E out \in StmtOutcomes(FALSE) :
       /\ CountFailure(out)
       /\ IF out # "ok"
            THEN /\ dpc' = [dpc EXCEPT ![d] = "done"]
                 /\ dRes' = [dRes EXCEPT ![d] = "error"]
                 /\ dCur' = dCur
            ELSE /\ dCur' = [dCur EXCEPT ![d] = balance[dUser[d]]]
                 /\ dpc' = [dpc EXCEPT ![d] = "update"]
                 /\ dRes' = dRes
  /\ UNCHANGED <<dbVars, lockVars, dUser, dOrder, dSum, regVars, clockVars, callVars, handlerVars, workerVars>>

\* SELECT u.id, ub.balance reads the committed balance and takes no lock (no
\* row: ErrBalanceNotFound);
\* then if float64(orderWithdrawal.Sum) > currentBalance the transaction is
\* rolled back with ErrInsufficientFunds (the comparison works on the
\* goroutine's own copy, so it is taken in the same step as the read)
SpendSelect(d) ==
  /\ dpc[d] = "select"
  /\ \E out \in StmtOutcomes(FALSE) :
       /\ CountFailure(out)
       /\ IF out # "ok"
            THEN /\ dpc' = [dpc EXCEPT ![d] = "done"]
                 /\ dRes' = [dRes EXCEPT ![d] = "error"]
                 /\ dCur' = dCur
            ELSE IF dUser[d] \notin users
            THEN /\ dpc' = [dpc EXCEPT ![d] = "done"]
                 /\ dRes' = [dRes EXCEPT ![d] = "ErrBalanceNotFound"]
                 /\ dCur' = dCur
            ELSE /\ dCur' = [dCur EXCEPT ![d] = balance[dUser[d]]]
                 /\ IF dSum[d] > balance[dUser[d]]
                      THEN /\ dpc' = [dpc EXCEPT ![d] = "done"]
                           /\ dRes' = [dRes EXCEPT ![d] = "ErrInsufficientFunds"]
                      ELSE /\ dpc' = [dpc EXCEPT ![d] = "update"]
                           /\ dRes' = dRes
  /\ UNCHANGED <<dbVars, lockVars, dUser, dOrder, dSum, regVars, clockVars, callVars, handlerVars, workerVars>>

\* a user_balance table without the CHECK constraint
BalanceCheckOff(newBalance) == TRUE

\* CHECK (balance >= 0) of user_balance, evaluated on the row an UPDATE writes
BalanceCheck(newBalance) == newBalance >= 0

\* UPDATE user_balance SET balance = balance - $1, total_spent = total_spent + $1:
\* waits for the row lock, then works on the latest committed row; a row that
\* violates the CHECK constraint is an error of the statement
SpendUpdate(d) ==
  /\ dpc[d] = "update"
  /\ balLock[dUser[d]] = NoOwner
  /\ \E out \in StmtOutcomes(FALSE) :
       /\ CountFailure(out)
       /\ IF out = "ok" /\ BalanceCheck(balance[dUser[d]] - dSum[d])
            THEN /\ balLock' = [balLock EXCEPT ![dUser[d]] = d]
                 /\ dpc' = [dpc EXCEPT ![d] = "commit"]
                 /\ dRes' = dRes
            ELSE /\ balLock' = balLock
                 /\ dpc' = [dpc EXCEPT ![d] = "done"]
                 /\ dRes' = [dRes EXCEPT ![d] = "error"]
  /\ UNCHANGED <<dbVars, ordLock, dUser, dOrder, dSum, dCur, regVars, clockVars, callVars, handlerVars, workerVars>>

\* a spend recorded with the wrong transaction type
SpendTxAsEarn(d) ==
  [user |-> dUser[d], order |-> dOrder[d], points |-> dSum[d], type |-> "earn"]

\* the spend transaction SpendPoints inserts
SpendTx(d) ==
  [user |-> dUser[d], order |-> dOrder[d], points |-> dSum[d], type |-> "spend"]

\* SpendCommit with an UPDATE that writes the balance SpendPoints read at its
\* start minus the sum (SET balance = $1) instead of balance - $1
SpendCommitFromRead(d) ==
  /\ dpc[d] = "commit"
  /\ \E out \in StmtOutcomes(FALSE) :
       /\ CountFailure(out)
       /\ IF out = "ok"
            THEN /\ balance' = [balance EXCEPT ![dUser[d]] = dCur[d] - dSum[d]]
                 /\ total_spent' = [total_spent EXCEPT ![dUser[d]] = @ + dSum[d]]
                 /\ ledger' = ledger (+) SetToBag({SpendTx(d)})
                 /\ dRes' = [dRes EXCEPT ![d] = "ok"]
            ELSE /\ UNCHANGED <<balance, total_spent, ledger>>
                 /\ dRes' = [dRes EXCEPT ![d] = "error"]
  /\ balLock' = [balLock EXCEPT ![dUser[d]] = NoOwner]
  /\ dpc' = [dpc EXCEPT ![d] = "done"]
  /\ UNCHANGED <<users, userRows, balanceRows, orders, orderRows, ordLock, dUser, dOrder, dSum, dCur, regVars, clockVars, callVars, handlerVars, workerVars>>

\* SpendCommit with an UPDATE that leaves total_spent alone
SpendCommitNoTotal(d) ==
  /\ dpc[d] = "commit"
  /\ \E out \in StmtOutcomes(FALSE) :
       /\ CountFailure(out)
       /\ IF out = "ok"
            THEN /\ balance' = [balance EXCEPT ![dUser[d]] = @ - dSum[d]]
                 /\ total_spent' = total_spent
                 /\ ledger' = ledger (+) SetToBag({SpendTx(d)})
                 /\ dRes' = [dRes EXCEPT ![d] = "ok"]
            ELSE /\ UNCHANGED <<balance, total_spent, ledger>>
                 /\ dRes' = [dRes EXCEPT ![d] = "error"]
  /\ balLock' = [balLock EXCEPT ![dUser[d]] = NoOwner]
  /\ dpc' = [dpc EXCEPT ![d] = "done"]
  /\ UNCHANGED <<users, userRows, balanceRows, orders, orderRows, ordLock, dUser, dOrder, dSum, dCur, regVars, clockVars, callVars, handlerVars, workerVars>>

\* SpendCommit with an UPDATE that subtracts the sum from total_spent
SpendCommitSigned(d) ==
  /\ dpc[d] = "commit"
  /\ \E out \in StmtOutcomes(FALSE) :
       /\ CountFailure(out)
       /\ IF out = "ok"
            THEN /\ balance' = [balance EXCEPT ![dUser[d]] = @ - dSum[d]]
                 /\ total_spent' = [total_spent EXCEPT ![dUser[d]] = @ - dSum[d]]
                 /\ ledger' = ledger (+) SetToBag({SpendTx(d)})
                 /\ dRes' = [dRes EXCEPT ![d] = "ok"]
            ELSE /\ UNCHANGED <<balance, total_spent, ledger>>
                 /\ dRes' = [dRes EXCEPT ![d] = "error"]
  /\ balLock' = [balLock EXCEPT ![dUser[d]] = NoOwner]
  /\ dpc' = [dpc EXCEPT ![d] = "done"]
  /\ UNCHANGED <<users, userRows, balanceRows, orders, orderRows, ordLock, dUser, dOrder, dSum, dCur, regVars, clockVars, callVars, handlerVars, workerVars>>

\* INSERT INTO loyalty_transactions (..., 'spend', ...) and return nil: the
\* deferred tx.Commit() makes the update and the insert visible together; a
\* failing insert rolls the update back
SpendCommit(d) ==
  /\ dpc[d] = "commit"
  /\ \E out \in StmtOutcomes(FALSE) :
       /\ CountFailure(out)
       /\ IF out = "ok"
            THEN /\ balance' = [balance EXCEPT ![dUser[d]] = @ - dSum[d]]
                 /\ total_spent' = [total_spent EXCEPT ![dUser[d]] = @ + dSum[d]]
                 /\ ledger' = ledger (+) SetToBag({SpendTx(d)})
                 /\ dRes' = [dRes EXCEPT ![d] = "ok"]
            ELSE /\ UNCHANGED <<balance, total_spent, ledger>>
                 /\ dRes' = [dRes EXCEPT ![d] = "error"]
  /\ balLock' = [balLock EXCEPT ![dUser[d]] = NoOwner]
  /\ dpc' = [dpc EXCEPT ![d] = "done"]
  /\ UNCHANGED <<users, userRows, balanceRows, orders, orderRows, ordLock, dUser, dOrder, dSum, dCur, regVars, clockVars, callVars, handlerVars, workerVars>>

\* ---------------------------------------------------------- GetUserBalance
\* GetUserBalance with the two columns scanned into the wrong fields
GetUserBalanceSwapped(u) ==
  IF u \in users
    THEN [err |-> "none", balance |-> total_spent[u], total_spent |-> balance[u]]
    ELSE [err |-> "ErrBalanceNotFound", balance |-> 0, total_spent |-> 0]

\* SELECT ub.balance, ub.total_spent FROM user_balance ub INNER JOIN users u:
\* one statement on the committed rows, scanned into Balance and TotalSpent;
\* no row: the zero value and ErrBalanceNotFound
GetUserBalance(u) ==
  IF u \in users
    THEN [err |-> "none", balance |-> balance[u], total_spent |-> total_spent[u]]
    ELSE [err |-> "ErrBalanceNotFound", balance |-> 0, total_spent |-> 0]

\* --------------------------------------------------- SignUpHandler, SetUser
\* POST /api/user/register with login u (and a password): an empty login is
\* answered 400; otherwise SetUser begins its transaction
SignUpHandler(r, u) ==
  /\ rpc[r] = "idle"
  /\ rUser' = [rUser EXCEPT ![r] = u]
  /\ IF u = ""
       THEN /\ rpc' = [rpc EXCEPT ![r] = "done"]
            /\ rRes' = [rRes EXCEPT ![r] = "400"]
       ELSE /\ rpc' = [rpc EXCEPT ![r] = "su_check"]
            /\ rRes' = rRes
  /\ UNCHANGED <<dbVars, lockVars, faults, debitVars, handlerVars, workerVars, clockVars, callVars>>

\* checkUserExists: SELECT EXISTS(SELECT 1 FROM users WHERE username = $1)
SetUserCheck(r) ==
  /\ rpc[r] = "su_check"
  /\ \E out \in StmtOutcomes(FALSE) :
       /\ CountFailure(out)
       /\ IF out # "ok"
            THEN /\ rpc' = [rpc EXCEPT ![r] = "done"]
                 /\ rRes' = [rRes EXCEPT ![r] = "500"]
            ELSE IF rUser[r] \in users
            THEN /\ rpc' = [rpc EXCEPT ![r] = "done"]
                 /\ rRes' = [rRes EXCEPT ![r] = "ErrUserAlreadyExists"]
            ELSE /\ rpc' = [rpc EXCEPT ![r] = "su_insert"]
                 /\ rRes' = rRes
  /\ UNCHANGED <<dbVars, lockVars, debitVars, rUser, handlerVars, workerVars, clockVars, callVars>>

\* a users table without the UNIQUE constraint
UsernameAny(u) == TRUE

\* username VARCHAR(50) UNIQUE NOT NULL: a row with username u can be added
UsernameUnique(u) == userRows[u] = 0

\* INSERT INTO users (...) RETURNING id: username is UNIQUE, so the insert
\* waits for an uncommitted insert of the same name and fails once a user
\* with the name is committed
SetUserInsert(r) ==
  /\ rpc[r] = "su_insert"
  /\ \A q \in Registrations \ {r} : ~(rpc[q] = "su_commit" /\ rUser[q] = rUser[r])
  /\ \E out \in StmtOutcomes(FALSE) :
       /\ CountFailure(out)
       /\ IF out = "ok" /\ UsernameUnique(rUser[r])
            THEN /\ rpc' = [rpc EXCEPT ![r] = "su_commit"]
                 /\ rRes' = rRes
            ELSE /\ rpc' = [rpc EXCEPT ![r] = "done"]
                 /\ rRes' = [rRes EXCEPT ![r] = "500"]
  /\ UNCHANGED <<dbVars, lockVars, debitVars, rUser, handlerVars, workerVars, clockVars, callVars>>

\* INSERT INTO user_balance (user_id, balance, total_spent) VALUES ($1, 0, 0)
\* and return nil: the deferred tx.Commit() makes the user and the balance row
\* visible together; a failing insert rolls the user back
SetUserCommit(r) ==
  /\ rpc[r] = "su_commit"
  /\ \E out \in StmtOutcomes(FALSE) :
       /\ CountFailure(out)
       /\ IF out = "ok"
            THEN /\ users' = users \cup {rUser[r]}
                 /\ userRows' = [userRows EXCEPT ![rUser[r]] = @ + 1]
                 /\ balanceRows' = [balanceRows EXCEPT ![rUser[r]] = @ + 1]
                 /\ balance' = [balance EXCEPT ![rUser[r]] = 0]
                 /\ total_spent' = [total_spent EXCEPT ![rUser[r]] = 0]
                 /\ rRes' = [rRes EXCEPT ![r] = "ok"]
            ELSE /\ UNCHANGED <<users, userRows, balanceRows, balance, total_spent>>
                 /\ rRes' = [rRes EXCEPT ![r] = "500"]
  /\ rpc' = [rpc EXCEPT ![r] = "done"]
  /\ UNCHANGED <<orders, orderRows, ledger, lockVars, debitVars, rUser,
                 handlerVars, workerVars, clockVars, callVars>>

\* ------------------------------------------------ SendOrderHandler, AddOrder
\* a handler that returns ends its request: r.Context() is cancelled
Finish(h, res) ==
  /\ hpc' = [hpc EXCEPT ![h] = "done"]
  /\ hRes' = [hRes EXCEPT ![h] = res]
  /\ reqDone' = [reqDone EXCEPT ![h] = TRUE]

\* POST /api/user/orders with body b and a token of user u: an empty body and
\* a body that fails isValidLuhn are answered 422; otherwise AddOrder begins
\* its transaction
SendOrderHandler(h, u, b) ==
  /\ hpc[h] = "idle"
  /\ hOrder' = [hOrder EXCEPT ![h] = b]
  /\ IF Len(Bytes(b)) = 0 \/ ~isValidLuhn(Bytes(b))
       THEN /\ Finish(h, "422")
            /\ hUser' = hUser
       ELSE /\ hpc' = [hpc EXCEPT ![h] = "ao_user"]
            /\ hUser' = [hUser EXCEPT ![h] = u]
            /\ UNCHANGED <<hRes, reqDone>>
  /\ UNCHANGED <<dbVars, lockVars, faults, debitVars, regVars, clockVars, callVars, workerVars>>

\* SELECT id FROM users WHERE username = $1
AddOrderSelectUser(h) ==
  /\ hpc[h] = "ao_user"
  /\ \E out \in StmtOutcomes(FALSE) :
       /\ CountFailure(out)
       /\ IF out # "ok" THEN Finish(h, "500")
          ELSE IF hUser[h] \notin users THEN Finish(h, "UserNotFound")
          ELSE /\ hpc' = [hpc EXCEPT ![h] = "ao_check"]
               /\ UNCHANGED <<hRes, reqDone>>
  /\ UNCHANGED <<dbVars, lockVars, debitVars, regVars, clockVars, callVars, hUser, hOrder, workerVars>>

\* AddOrderCheck that goes on after finding the order stored for the same user
AddOrderCheckFallThrough(h) ==
  /\ hpc[h] = "ao_check"
  /\ \E out \in StmtOutcomes(FALSE) :
       /\ CountFailure(out)
       /\ IF out # "ok" THEN Finish(h, "500")
          ELSE IF orders[hOrder[h]] = NoOrder
                 THEN /\ hpc' = [hpc EXCEPT ![h] = "ao_insert"]
                      /\ UNCHANGED <<hRes, reqDone>>
          ELSE IF orders[hOrder[h]].user = hUser[h]
                 THEN /\ hpc' = [hpc EXCEPT ![h] = "poll"]
                      /\ UNCHANGED <<hRes, reqDone>>
                 ELSE Finish(h, "OwnedByOtherUser")
  /\ UNCHANGED <<dbVars, lockVars, debitVars, regVars, clockVars, callVars, hUser, hOrder, workerVars>>

\* AddOrderCheck with the comparison of the two user ids inverted
AddOrderCheckInverted(h) ==
  /\ hpc[h] = "ao_check"
  /\ \E out \in StmtOutcomes(FALSE) :
       /\ CountFailure(out)
       /\ IF out # "ok" THEN Finish(h, "500")
          ELSE IF orders[hOrder[h]] = NoOrder
                 THEN /\ hpc' = [hpc EXCEPT ![h] = "ao_insert"]
                      /\ UNCHANGED <<hRes, reqDone>>
          ELSE IF orders[hOrder[h]].user # hUser[h]
                 THEN Finish(h, "AlreadySubmittedBySameUser")
                 ELSE Finish(h, "OwnedByOtherUser")
  /\ UNCHANGED <<dbVars, lockVars, debitVars, regVars, clockVars, callVars, hUser, hOrder, workerVars>>

\* SELECT user_id FROM orders WHERE order_number = $1: sees committed rows only
AddOrderCheck(h) ==
  /\ hpc[h] = "ao_check"
  /\ \E out \in StmtOutcomes(FALSE) :
       /\ CountFailure(out)
       /\ IF out # "ok" THEN Finish(h, "500")
          ELSE IF orders[hOrder[h]] = NoOrder
                 THEN /\ hpc' = [hpc EXCEPT ![h] = "ao_insert"]
                      /\ UNCHANGED <<hRes, reqDone>>
          ELSE IF orders[hOrder[h]].user = hUser[h]
                 THEN Finish(h, "AlreadySubmittedBySameUser")
                 ELSE Finish(h, "OwnedByOtherUser")
  /\ UNCHANGED <<dbVars, lockVars, debitVars, regVars, clockVars, callVars, hUser, hOrder, workerVars>>

\* an orders table without the UNIQUE constraint
OrderNumberAny(o) == TRUE

\* order_number VARCHAR(255) UNIQUE NOT NULL: a row with number o can be added
OrderNumberUnique(o) == orderRows[o] = 0

\* AddOrderInsert that does not wait for an uncommitted insert of the same
\* number: it sees the committed rows only
AddOrderInsertNoWait(h) ==
  /\ hpc[h] = "ao_insert"
  /\ \E out \in StmtOutcomes(FALSE) :
       /\ CountFailure(out)
       /\ IF out = "ok" /\ OrderNumberUnique(hOrder[h])
            THEN /\ hpc' = [hpc EXCEPT ![h] = "ao_commit"]
                 /\ UNCHANGED <<hRes, reqDone>>
            ELSE Finish(h, "500")
  /\ UNCHANGED <<dbVars, lockVars, debitVars, regVars, clockVars, callVars, hUser, hOrder, workerVars>>

\* INSERT INTO orders (...,'NEW',...): order_number is UNIQUE, so the insert
\* waits for an uncommitted insert of the same number and fails once a row
\* with the number is committed
AddOrderInsert(h) ==
  /\ hpc[h] = "ao_insert"
  /\ \A g \in Handlers \ {h} : ~(hpc[g] = "ao_commit" /\ hOrder[g] = hOrder[h])
  /\ \E out \in StmtOutcomes(FALSE) :
       /\ CountFailure(out)
       /\ IF out = "ok" /\ OrderNumberUnique(hOrder[h])
            THEN /\ hpc' = [hpc EXCEPT ![h] = "ao_commit"]
                 /\ UNCHANGED <<hRes, reqDone>>
            ELSE Finish(h, "500")
  /\ UNCHANGED <<dbVars, lockVars, debitVars, regVars, clockVars, callVars, hUser, hOrder, workerVars>>

\* return nil: the deferred tx.Commit() makes the new order visible
AddOrderCommit(h) ==
  /\ hpc[h] = "ao_commit"
  /\ orders' = [orders EXCEPT ![hOrder[h]] =
                  [user |-> hUser[h], status |-> "NEW", accrual |-> {}]]
  /\ orderRows' = [orderRows EXCEPT ![hOrder[h]] = @ + 1]
  /\ hpc' = [hpc EXCEPT ![h] = "poll"]
  /\ UNCHANGED <<users, userRows, balanceRows, balance, total_spent, ledger, lockVars, faults, debitVars, regVars, clockVars, callVars,
                 hUser, hOrder, hRes, reqDone, workerVars>>

\* time.NewTicker(5 * time.Second)
TickerPeriod == 5
\* timeout := 2 * time.Minute
PollTimeout == 120
\* retryAfter := 30 * time.Second
DefaultRetryAfter == 30

\* a ticker that sends its first tick when it is built
FirstTickAtOnce(t) == t

\* time.NewTicker(d) built at time t sends its first tick at t + d
FirstTick(t) == t + TickerPeriod

\* PollOrderStatus: go func() {...}() with the caller's ctx; the goroutine
\* builds its timeout context and its ticker and waits in the select
PollOrderStatus(w, o, c) ==
  /\ wpc[w] = "idle"
  /\ wpc' = [wpc EXCEPT ![w] = "select"]
  /\ wOrder' = [wOrder EXCEPT ![w] = o]
  /\ wCtx' = [wCtx EXCEPT ![w] = c]
  /\ wStart' = [wStart EXCEPT ![w] = now]
  /\ nextTick' = [nextTick EXCEPT ![w] = FirstTick(now)]
  /\ UNCHANGED <<wResp, wUserID, wErr, expired, tick, now, rlAt, rlHdr, inFlight>>

\* lss.PollOrderStatus(ctx, orderNumber, config.AccrualAddress) after AddOrder
\* returned nil: the goroutine gets the request's context
HandlerPoll(h) ==
  /\ hpc[h] = "poll"
  /\ PollOrderStatus(h, hOrder[h], h)
  /\ hpc' = [hpc EXCEPT ![h] = "respond"]
  /\ UNCHANGED <<dbVars, lockVars, faults, debitVars, regVars, callVars, hUser, hOrder, hRes, reqDone>>

\* w.WriteHeader(http.StatusAccepted) and the handler returns
HandlerRespond(h) ==
  /\ hpc[h] = "respond"
  /\ Finish(h, "Accepted")
  /\ UNCHANGED <<dbVars, lockVars, faults, debitVars, regVars, clockVars, callVars, hUser, hOrder, workerVars>>

\* PollOrderStatus called by another caller than the handler, with a context
\* that is never cancelled
CallPollOrderStatus(x, o) ==
  /\ x \in Callers
  /\ PollOrderStatus(x, o, Background)
  /\ UNCHANGED <<dbVars, lockVars, faults, debitVars, regVars, callVars, handlerVars>>

\* lss.UpdateOrderStatusAndAccrual(ctx, orderNumber, status, accrual) called
\* by a client of the service with a context that is never cancelled
CallUpdateOrderStatusAndAccrual(x, o, status, accrual) ==
  /\ x \in Callers
  /\ wpc[x] = "idle"
  /\ wpc' = [wpc EXCEPT ![x] = "tx_getuser"]
  /\ wOrder' = [wOrder EXCEPT ![x] = o]
  /\ wCtx' = [wCtx EXCEPT ![x] = Background]
  /\ wResp' = [wResp EXCEPT ![x] = [status |-> status, accrual |-> accrual]]
  /\ UNCHANGED <<dbVars, lockVars, faults, debitVars, regVars, callVars, clockVars,
                 handlerVars, wUserID, wErr, expired, tick>>

\* lss.UpdateOrderStatus(ctx, orderNumber, status) called the same way
CallUpdateOrderStatus(x, o, status) ==
  /\ x \in Callers
  /\ wpc[x] = "idle"
  /\ wpc' = [wpc EXCEPT ![x] = "upd_status"]
  /\ wOrder' = [wOrder EXCEPT ![x] = o]
  /\ wCtx' = [wCtx EXCEPT ![x] = Background]
  /\ wResp' = [wResp EXCEPT ![x] = [status |-> status, accrual |-> {}]]
  /\ UNCHANGED <<dbVars, lockVars, faults, debitVars, regVars, callVars, clockVars,
                 handlerVars, wUserID, wErr, expired, tick>>

\* ------------------------------------------- the PollOrderStatus goroutine
\* what one http.Get of the accrual service can give: a network error, a body
\* that does not decode, 204, 429, another status code, or 200 with a status
\* and an optional accrual
AccrualStatuses == Statuses \cup {"REGISTERED"}
PollResponses ==
  {[code |-> c, status |-> "none", accrual |-> {}, retry |-> ""] :
      c \in {"neterr", "decodeerr", "204", "429", "500"}}
  \cup {[code |-> "200", status |-> st, accrual |-> {}, retry |-> ""] :
          st \in AccrualStatuses}
  \cup {[code |-> "200", status |-> "PROCESSED", accrual |-> a, retry |-> ""] :
          a \in Accruals}

\* RetryAfter with no sleep for a response without the header
RetryAfterNoDefault(hdr) ==
  IF hdr # "" /\ isIntegerAtoi(Bytes(hdr)) THEN Atoi(Bytes(hdr))
  ELSE 0

\* the seconds the goroutine sleeps after a 429 response with Retry-After
\* header hdr: strconv.Atoi(retryAfterHeader) seconds when the header is not
\* empty and Atoi returns no error, 30 otherwise
RetryAfter(hdr) ==
  IF hdr # "" /\ isIntegerAtoi(Bytes(hdr)) THEN Atoi(Bytes(hdr))
  ELSE DefaultRetryAfter

\* IsFinal that takes PROCESSING for a final status as well
IsFinalOrProcessing(resp) ==
  resp.code = "200" /\ resp.status \in {"PROCESSED", "INVALID", "PROCESSING"}

\* accrualResponse.Status == "PROCESSED" || accrualResponse.Status == "INVALID"
IsFinal(resp) == resp.code = "200" /\ resp.status \in {"PROCESSED", "INVALID"}

\* WithAccrual without the comparison of the status
WithAccrualAnyStatus(resp) == resp.accrual # {}

\* accrualResponse.Status == "PROCESSED" && accrualResponse.Accrual != nil
WithAccrual(resp) == resp.status = "PROCESSED" /\ resp.accrual # {}

\* the context the goroutine hands to the store: the ctx PollOrderStatus got
StoreCtxDone(w) == wCtx[w] # Background /\ reqDone[wCtx[w]]

\* return: the deferred ticker.Stop() and cancel() release the ticker and the
\* timer of pollCtx
Return(w) ==
  /\ wpc' = [wpc EXCEPT ![w] = "done"]
  /\ tick' = [tick EXCEPT ![w] = FALSE]
  /\ expired' = [expired EXCEPT ![w] = FALSE]

\* the ticker puts a tick into ticker.C every 5 seconds and drops it when the
\* channel is full (a tick that arrives after the goroutine left the loop for
\* the store is never read and is left out)
Tick(w) ==
  /\ wpc[w] \in {"select", "sleep"}
  /\ ~tick[w]
  /\ tick' = [tick EXCEPT ![w] = TRUE]
  /\ UNCHANGED <<dbVars, lockVars, faults, debitVars, regVars, clockVars, callVars, handlerVars,
                 wpc, wOrder, wCtx, wResp, wUserID, wErr, expired>>

\* a deadline that never passes
DeadlineNever(w) == FALSE /\ UNCHANGED vars

\* context.WithTimeout(context.Background(), 2*time.Minute): two minutes after
\* the start of the goroutine pollCtx.Done() is closed, whatever the goroutine
\* is doing
DeadlineElapses(w) ==
  /\ wpc[w] \notin {"idle", "done"}
  /\ ~expired[w]
  /\ expired' = [expired EXCEPT ![w] = TRUE]
  /\ UNCHANGED <<dbVars, lockVars, faults, debitVars, regVars, clockVars, callVars, handlerVars,
                 wpc, wOrder, wCtx, wResp, wUserID, wErr, tick>>

\* WorkerPoll that also stores a status that is not final
WorkerPollPersist(w, resp) ==
  /\ wpc[w] = "select"
  /\ tick[w]
  /\ tick' = [tick EXCEPT ![w] = FALSE]
  /\ IF IsFinal(resp)
       THEN /\ wResp' = [wResp EXCEPT ![w] =
                           [status |-> resp.status, accrual |-> resp.accrual]]
            /\ wpc' = [wpc EXCEPT ![w] =
                         IF WithAccrual(resp) THEN "tx_getuser" ELSE "upd_status"]
            /\ orders' = orders
       ELSE /\ wResp' = wResp
            /\ wpc' = [wpc EXCEPT ![w] =
                         IF resp.code = "429" THEN "sleep" ELSE "select"]
            /\ orders' = [orders EXCEPT ![wOrder[w]] =
                            IF resp.status \in Statuses /\ @ # NoOrder
                              THEN [@ EXCEPT !.status = resp.status] ELSE @]
  /\ rlAt' = IF resp.code = "429" THEN [rlAt EXCEPT ![w] = now] ELSE rlAt
  /\ rlHdr' = IF resp.code = "429" THEN [rlHdr EXCEPT ![w] = resp.retry] ELSE rlHdr
  /\ UNCHANGED <<users, userRows, balanceRows, orderRows, balance, total_spent, ledger, lockVars, faults,
                 debitVars, regVars, callVars, handlerVars, wOrder, wCtx, wUserID, wErr, expired,
                 now, wStart, nextTick, inFlight>>

\* WorkerPoll that returns when http.Get or the decoding fails or the status
\* code is unexpected
WorkerPollGiveUp(w, resp) ==
  /\ wpc[w] = "select"
  /\ tick[w]
  /\ IF resp.code \in {"neterr", "decodeerr", "500"}
       THEN /\ Return(w)
            /\ wResp' = wResp
       ELSE /\ tick' = [tick EXCEPT ![w] = FALSE]
            /\ expired' = expired
            /\ IF IsFinal(resp)
                 THEN /\ wResp' = [wResp EXCEPT ![w] =
                                     [status |-> resp.status, accrual |-> resp.accrual]]
                      /\ wpc' = [wpc EXCEPT ![w] =
                                   IF WithAccrual(resp) THEN "tx_getuser" ELSE "upd_status"]
                 ELSE /\ wResp' = wResp
                      /\ wpc' = [wpc EXCEPT ![w] =
                                   IF resp.code = "429" THEN "sleep" ELSE "select"]
  /\ rlAt' = IF resp.code = "429" THEN [rlAt EXCEPT ![w] = now] ELSE rlAt
  /\ rlHdr' = IF resp.code = "429" THEN [rlHdr EXCEPT ![w] = resp.retry] ELSE rlHdr
  /\ UNCHANGED <<dbVars, lockVars, faults, debitVars, regVars, callVars, handlerVars,
                 wOrder, wCtx, wUserID, wErr, now, wStart, nextTick, inFlight>>

\* select, case <-ticker.C: the tick is taken, then one http.Get, which
\* returns a response or an error, and the handling of it up to the next
\* statement of the store, the sleep or the next select; for a 429 response
\* its Retry-After header and the time are kept for the sleep
WorkerPoll(w, resp) ==
  /\ wpc[w] = "select"
  /\ tick[w]
  /\ tick' = [tick EXCEPT ![w] = FALSE]
  /\ IF IsFinal(resp)
       THEN /\ wResp' = [wResp EXCEPT ![w] =
                           [status |-> resp.status, accrual |-> resp.accrual]]
            /\ wpc' = [wpc EXCEPT ![w] =
                         IF WithAccrual(resp) THEN "tx_getuser" ELSE "upd_status"]
       ELSE /\ wResp' = wResp
            /\ wpc' = [wpc EXCEPT ![w] =
                         IF resp.code = "429" THEN "sleep" ELSE "select"]
  /\ rlAt' = IF resp.code = "429" THEN [rlAt EXCEPT ![w] = now] ELSE rlAt
  /\ rlHdr' = IF resp.code = "429" THEN [rlHdr EXCEPT ![w] = resp.retry] ELSE rlHdr
  /\ UNCHANGED <<dbVars, lockVars, faults, debitVars, regVars, callVars, handlerVars,
                 wOrder, wCtx, wUserID, wErr, expired, now, wStart, nextTick, inFlight>>

\* a goroutine that starts every http.Get in a goroutine of its own and goes
\* back to its select without waiting for the response
WorkerGetAsync(w) ==
  /\ wpc[w] = "select"
  /\ tick[w]
  /\ inFlight[w] < 2
  /\ tick' = [tick EXCEPT ![w] = FALSE]
  /\ inFlight' = [inFlight EXCEPT ![w] = @ + 1]
  /\ UNCHANGED <<dbVars, lockVars, faults, debitVars, regVars, callVars, handlerVars,
                 wpc, wOrder, wCtx, wResp, wUserID, wErr, expired,
                 now, wStart, nextTick, rlAt, rlHdr>>

\* select, case <-ticker.C: the tick is taken and http.Get sends the request;
\* the goroutine is inside http.Get until the response or an error is there
WorkerGet(w) ==
  /\ wpc[w] = "select"
  /\ tick[w]
  /\ tick' = [tick EXCEPT ![w] = FALSE]
  /\ wpc' = [wpc EXCEPT ![w] = "get"]
  /\ inFlight' = [inFlight EXCEPT ![w] = @ + 1]
  /\ UNCHANGED <<dbVars, lockVars, faults, debitVars, regVars, callVars, handlerVars,
                 wOrder, wCtx, wResp, wUserID, wErr, expired,
                 now, wStart, nextTick, rlAt, rlHdr>>

\* http.Get returns, any time after the request: the handling of the response
\* or the error up to the next statement of the store, the sleep or the next
\* select, as in WorkerPoll
WorkerResponse(w, resp) ==
  /\ wpc[w] = "get"
  /\ inFlight' = [inFlight EXCEPT ![w] = @ - 1]
  /\ IF IsFinal(resp)
       THEN /\ wResp' = [wResp EXCEPT ![w] =
                           [status |-> resp.status, accrual |-> resp.accrual]]
            /\ wpc' = [wpc EXCEPT ![w] =
                         IF WithAccrual(resp) THEN "tx_getuser" ELSE "upd_status"]
       ELSE /\ wResp' = wResp
            /\ wpc' = [wpc EXCEPT ![w] =
                         IF resp.code = "429" THEN "sleep" ELSE "select"]
  /\ rlAt' = IF resp.code = "429" THEN [rlAt EXCEPT ![w] = now] ELSE rlAt
  /\ rlHdr' = IF resp.code = "429" THEN [rlHdr EXCEPT ![w] = resp.retry] ELSE rlHdr
  /\ UNCHANGED <<dbVars, lockVars, faults, debitVars, regVars, callVars, handlerVars,
                 wOrder, wCtx, wUserID, wErr, expired, tick, now, wStart, nextTick>>

\* time.Sleep(retryAfter) returns; continue
WorkerWake(w) ==
  /\ wpc[w] = "sleep"
  /\ wpc' = [wpc EXCEPT ![w] = "select"]
  /\ UNCHANGED <<dbVars, lockVars, faults, debitVars, regVars, clockVars, callVars, handlerVars,
                 wOrder, wCtx, wResp, wUserID, wErr, expired, tick>>

\* select, case <-pollCtx.Done(): return
WorkerDeadline(w) ==
  /\ wpc[w] = "select"
  /\ expired[w]
  /\ Return(w)
  /\ UNCHANGED <<dbVars, lockVars, faults, debitVars, regVars, clockVars, callVars, handlerVars,
                 wOrder, wCtx, wResp, wUserID, wErr>>

\* ----------------------------------------------------- the goroutine in time
\* the goroutine of w is between go func() and its return
Running(w) == wpc[w] \notin {"idle", "done"}

\* the ticker sends a tick into ticker.C one period after the last one; a
\* tick that finds the channel full is dropped
TickerFires(w) ==
  /\ Running(w)
  /\ now = nextTick[w]
  /\ tick' = [tick EXCEPT ![w] = TRUE]
  /\ nextTick' = [nextTick EXCEPT ![w] = @ + TickerPeriod]
  /\ UNCHANGED <<dbVars, lockVars, faults, debitVars, regVars, callVars, handlerVars,
                 wpc, wOrder, wCtx, wResp, wUserID, wErr, expired,
                 now, wStart, rlAt, rlHdr, inFlight>>

\* pollCtx.Done() is closed two minutes after the goroutine built pollCtx
DeadlinePasses(w) ==
  /\ now >= wStart[w] + PollTimeout
  /\ DeadlineElapses(w)

\* time.Sleep(retryAfter) returns once retryAfter has passed since the 429
\* response (at once for a duration that is not positive)
WorkerWakes(w) ==
  /\ now >= rlAt[w] + RetryAfter(rlHdr[w])
  /\ WorkerWake(w)

\* a second passes.  Timers are on time: no tick and no deadline is overdue,
\* and a sleep ends when its duration is over.  What the program does between
\* two waits takes less than a second: the handler answers after go func()
\* without waiting, and a goroutine whose select has a ready case takes it.
Advance ==
  /\ now < MaxTime
  /\ \E w \in Workers : Running(w)
  /\ \A h \in Handlers : hpc[h] # "respond"
  /\ \A w \in Workers :
       Running(w) =>
         /\ nextTick[w] > now
         /\ now >= wStart[w] + PollTimeout => expired[w]
         /\ wpc[w] = "select" => ~tick[w] /\ ~expired[w]
         /\ wpc[w] = "sleep" => now < rlAt[w] + RetryAfter(rlHdr[w])
  /\ now' = now + 1
  /\ UNCHANGED <<dbVars, lockVars, faults, debitVars, regVars, callVars, handlerVars,
                 workerVars, wStart, nextTick, rlAt, rlHdr, inFlight>>

\* Rollback after which the goroutine goes back to its select to write the
\* answer again at a later tick
RollbackThenContinue(w) ==
  /\ ordLock' = [o \in OrderNumbers |-> IF ordLock[o] = w THEN NoOwner ELSE ordLock[o]]
  /\ balLock' = [u \in Users |-> IF balLock[u] = w THEN NoOwner ELSE balLock[u]]
  /\ wErr' = [wErr EXCEPT ![w] = "error"]
  /\ wpc' = [wpc EXCEPT ![w] = "select"]
  /\ UNCHANGED <<tick, expired>>

\* a statement of UpdateOrderStatusAndAccrual fails: tx.Rollback() drops the
\* transaction's writes and locks, the goroutine logs the error and returns
Rollback(w) ==
  /\ ordLock' = [o \in OrderNumbers |-> IF ordLock[o] = w THEN NoOwner ELSE ordLock[o]]
  /\ balLock' = [u \in Users |-> IF balLock[u] = w THEN NoOwner ELSE balLock[u]]
  /\ wErr' = [wErr EXCEPT ![w] = "error"]
  /\ Return(w)

\* UpdateOrderStatus: one UPDATE orders SET status = $1 in its own transaction
UpdateOrderStatus(w) ==
  /\ wpc[w] = "upd_status"
  /\ ordLock[wOrder[w]] = NoOwner
  /\ \E out \in StmtOutcomes(StoreCtxDone(w)) :
       /\ CountFailure(out)
       /\ IF out = "ok"
            THEN /\ orders' = [orders EXCEPT ![wOrder[w]] =
                                 IF @ = NoOrder THEN @
                                 ELSE [@ EXCEPT !.status = wResp[w].status]]
                 /\ wErr' = [wErr EXCEPT ![w] = "ok"]
            ELSE /\ orders' = orders
                 /\ wErr' = [wErr EXCEPT ![w] = "error"]
  /\ Return(w)
  /\ UNCHANGED <<users, userRows, balanceRows, orderRows, balance, total_spent, ledger, lockVars, debitVars, regVars, clockVars, callVars,
                 handlerVars, wOrder, wCtx, wResp, wUserID>>

\* SELECT user_id FROM orders WHERE order_number = $1 (no row: sql.ErrNoRows)
CreditGetUser(w) ==
  /\ wpc[w] = "tx_getuser"
  /\ \E out \in StmtOutcomes(StoreCtxDone(w)) :
       /\ CountFailure(out)
       /\ IF out = "ok" /\ orders[wOrder[w]] # NoOrder
            THEN /\ wUserID' = [wUserID EXCEPT ![w] = orders[wOrder[w]].user]
                 /\ wpc' = [wpc EXCEPT ![w] = "tx_order"]
                 /\ UNCHANGED <<lockVars, wErr, expired, tick>>
            ELSE /\ Rollback(w)
                 /\ wUserID' = wUserID
  /\ UNCHANGED <<dbVars, debitVars, regVars, clockVars, callVars, handlerVars, wOrder, wCtx, wResp>>

\* Credits without the comparison of the status
CreditsAnyStatus(status, accrual) ==
  accrual # {} /\ \A a \in accrual : a > 0

\* status == "PROCESSED" && accrual != nil && *accrual > 0
Credits(status, accrual) ==
  status = "PROCESSED" /\ accrual # {} /\ \A a \in accrual : a > 0

\* UPDATE orders SET status = $1, accrual = $2: takes the row lock of the order
CreditUpdateOrder(w) ==
  /\ wpc[w] = "tx_order"
  /\ ordLock[wOrder[w]] = NoOwner
  /\ \E out \in StmtOutcomes(StoreCtxDone(w)) :
       /\ CountFailure(out)
       /\ IF out = "ok"
            THEN /\ ordLock' = [ordLock EXCEPT ![wOrder[w]] = w]
                 /\ balLock' = balLock
                 /\ wpc' = [wpc EXCEPT ![w] =
                              IF Credits(wResp[w].status, wResp[w].accrual)
                                THEN "tx_balance" ELSE "tx_commit"]
                 /\ UNCHANGED <<wErr, expired, tick>>
            ELSE Rollback(w)
  /\ UNCHANGED <<dbVars, debitVars, regVars, clockVars, callVars, handlerVars, wOrder, wCtx, wResp, wUserID>>

\* the accrual a transaction credits
Amount(w) == CHOOSE a \in wResp[w].accrual : TRUE

\* UPDATE user_balance SET balance = balance + $1: takes the row lock of the balance
CreditUpdateBalance(w) ==
  /\ wpc[w] = "tx_balance"
  /\ balLock[wUserID[w]] = NoOwner
  /\ \E out \in StmtOutcomes(StoreCtxDone(w)) :
       /\ CountFailure(out)
       /\ IF out = "ok" /\ BalanceCheck(balance[wUserID[w]] + Amount(w))
            THEN /\ balLock' = [balLock EXCEPT ![wUserID[w]] = w]
                 /\ ordLock' = ordLock
                 /\ wpc' = [wpc EXCEPT ![w] = "tx_commit"]
                 /\ UNCHANGED <<wErr, expired, tick>>
            ELSE Rollback(w)
  /\ UNCHANGED <<dbVars, debitVars, regVars, clockVars, callVars, handlerVars, wOrder, wCtx, wResp, wUserID>>

\* an earn transaction booked to another user than the user_id read from
\* the order
EarnTxOfOther(w) ==
  [user |-> CHOOSE u \in Users : u # wUserID[w],
   order |-> wOrder[w], points |-> Amount(w), type |-> "earn"]

\* the earn transaction UpdateOrderStatusAndAccrual inserts
EarnTx(w) ==
  [user |-> wUserID[w], order |-> wOrder[w], points |-> Amount(w), type |-> "earn"]

\* CreditCommit with the statements run outside the transaction: a failing
\* insert leaves the order update and the balance update in place
CreditCommitNoTx(w) ==
  /\ wpc[w] = "tx_commit"
  /\ \E out \in IF Credits(wResp[w].status, wResp[w].accrual)
                  THEN StmtOutcomes(StoreCtxDone(w)) ELSE {"ok"} :
       /\ CountFailure(out)
       /\ orders' = [orders EXCEPT ![wOrder[w]] =
                       [@ EXCEPT !.status = wResp[w].status,
                                 !.accrual = wResp[w].accrual]]
       /\ IF Credits(wResp[w].status, wResp[w].accrual)
            THEN /\ balance' = [balance EXCEPT ![wUserID[w]] = @ + Amount(w)]
                 /\ ledger' = IF out = "ok" THEN ledger (+) SetToBag({EarnTx(w)})
                                            ELSE ledger
            ELSE UNCHANGED <<balance, ledger>>
       /\ wErr' = [wErr EXCEPT ![w] = IF out = "ok" THEN "ok" ELSE "error"]
  /\ ordLock' = [o \in OrderNumbers |-> IF ordLock[o] = w THEN NoOwner ELSE ordLock[o]]
  /\ balLock' = [u \in Users |-> IF balLock[u] = w THEN NoOwner ELSE balLock[u]]
  /\ Return(w)
  /\ UNCHANGED <<users, userRows, balanceRows, orderRows, total_spent, debitVars, regVars, clockVars, callVars, handlerVars,
                 wOrder, wCtx, wResp, wUserID>>

\* CreditCommit whose UPDATE user_balance has no WHERE user_id = $2: every
\* row of the table gets the accrual
CreditCommitAllRows(w) ==
  /\ wpc[w] = "tx_commit"
  /\ \E out \in IF Credits(wResp[w].status, wResp[w].accrual)
                  THEN StmtOutcomes(StoreCtxDone(w)) ELSE {"ok"} :
       /\ CountFailure(out)
       /\ IF out = "ok"
            THEN /\ orders' = [orders EXCEPT ![wOrder[w]] =
                                 [@ EXCEPT !.status = wResp[w].status,
                                           !.accrual = wResp[w].accrual]]
                 /\ IF Credits(wResp[w].status, wResp[w].accrual)
                      THEN /\ balance' = [u \in Users |-> balance[u] + Amount(w)]
                           /\ ledger' = ledger (+) SetToBag({EarnTx(w)})
                      ELSE UNCHANGED <<balance, ledger>>
                 /\ wErr' = [wErr EXCEPT ![w] = "ok"]
            ELSE /\ UNCHANGED <<orders, balance, ledger>>
                 /\ wErr' = [wErr EXCEPT ![w] = "error"]
  /\ ordLock' = [o \in OrderNumbers |-> IF ordLock[o] = w THEN NoOwner ELSE ordLock[o]]
  /\ balLock' = [u \in Users |-> IF balLock[u] = w THEN NoOwner ELSE balLock[u]]
  /\ Return(w)
  /\ UNCHANGED <<users, userRows, balanceRows, orderRows, total_spent, debitVars, regVars, clockVars, callVars, handlerVars,
                 wOrder, wCtx, wResp, wUserID>>

\* CreditCommit that keeps one row in loyalty_transactions: the earn
\* transaction takes the place of the rows written before
CreditCommitOverwriting(w) ==
  /\ wpc[w] = "tx_commit"
  /\ \E out \in IF Credits(wResp[w].status, wResp[w].accrual)
                  THEN StmtOutcomes(StoreCtxDone(w)) ELSE {"ok"} :
       /\ CountFailure(out)
       /\ IF out = "ok"
            THEN /\ orders' = [orders EXCEPT ![wOrder[w]] =
                                 [@ EXCEPT !.status = wResp[w].status,
                                           !.accrual = wResp[w].accrual]]
                 /\ IF Credits(wResp[w].status, wResp[w].accrual)
                      THEN /\ balance' = [balance EXCEPT ![wUserID[w]] = @ + Amount(w)]
                           /\ ledger' = SetToBag({EarnTx(w)})
                      ELSE UNCHANGED <<balance, ledger>>
                 /\ wErr' = [wErr EXCEPT ![w] = "ok"]
            ELSE /\ UNCHANGED <<orders, balance, ledger>>
                 /\ wErr' = [wErr EXCEPT ![w] = "error"]
  /\ ordLock' = [o \in OrderNumbers |-> IF ordLock[o] = w THEN NoOwner ELSE ordLock[o]]
  /\ balLock' = [u \in Users |-> IF balLock[u] = w THEN NoOwner ELSE balLock[u]]
  /\ Return(w)
  /\ UNCHANGED <<users, userRows, balanceRows, orderRows, total_spent, debitVars, regVars, clockVars, callVars, handlerVars,
                 wOrder, wCtx, wResp, wUserID>>

\* for a credit INSERT INTO loyalty_transactions (..., 'earn', ...), then
\* return nil: the deferred tx.Commit() makes the order update and, for a
\* credit, the balance update and the earn transaction visible together; a
\* failing insert rolls everything back
CreditCommit(w) ==
  /\ wpc[w] = "tx_commit"
  /\ \E out \in IF Credits(wResp[w].status, wResp[w].accrual)
                  THEN StmtOutcomes(StoreCtxDone(w)) ELSE {"ok"} :
       /\ CountFailure(out)
       /\ IF out = "ok"
            THEN /\ orders' = [orders EXCEPT ![wOrder[w]] =
                                 [@ EXCEPT !.status = wResp[w].status,
                                           !.accrual = wResp[w].accrual]]
                 /\ IF Credits(wResp[w].status, wResp[w].accrual)
                      THEN /\ balance' = [balance EXCEPT ![wUserID[w]] = @ + Amount(w)]
                           /\ ledger' = ledger (+) SetToBag({EarnTx(w)})
                      ELSE UNCHANGED <<balance, ledger>>
                 /\ wErr' = [wErr EXCEPT ![w] = "ok"]
            ELSE /\ UNCHANGED <<orders, balance, ledger>>
                 /\ wErr' = [wErr EXCEPT ![w] = "error"]
  /\ ordLock' = [o \in OrderNumbers |-> IF ordLock[o] = w THEN NoOwner ELSE ordLock[o]]
  /\ balLock' = [u \in Users |-> IF balLock[u] = w THEN NoOwner ELSE balLock[u]]
  /\ Return(w)
  /\ UNCHANGED <<users, userRows, balanceRows, orderRows, total_spent, debitVars, regVars, clockVars, callVars, handlerVars,
                 wOrder, wCtx, wResp, wUserID>>

\* ---------------------------------------------------------- specifications
\* Bounds of the environment, not of the program: requests are
\* interchangeable, so they are numbered in the order they arrive, and order
\* submissions arrive one after the other.
NextDebit(d) ==
  \A i, j \in DOMAIN DebitSeq : i < j /\ DebitSeq[j] = d => dpc[DebitSeq[i]] # "idle"
NextHandler(h) ==
  \A i, j \in DOMAIN HandlerSeq : i < j /\ HandlerSeq[j] = h => hpc[HandlerSeq[i]] # "idle"
NoHandlerRuns == \A g \in Handlers : hpc[g] \in {"idle", "done"}

DebitStep(d) ==
  \/ \E u \in users, s \in 0..MaxSum :
       NextDebit(d) /\ WithdrawPointsHandler(d, u, WithdrawOrder(d), s)
  \/ SpendSelect(d)
  \/ SpendUpdate(d)
  \/ SpendCommit(d)

HandlerStep(h) ==
  \/ \E u \in users, b \in Bodies :
       NextHandler(h) /\ NoHandlerRuns /\ SendOrderHandler(h, u, b)
  \/ AddOrderSelectUser(h)
  \/ AddOrderCheck(h)
  \/ AddOrderInsert(h)
  \/ AddOrderCommit(h)
  \/ HandlerPoll(h)
  \/ HandlerRespond(h)

WorkerStep(w) ==
  \/ Tick(w)
  \/ DeadlineElapses(w)
  \/ \E resp \in PollResponses : WorkerPoll(w, resp)
  \/ WorkerWake(w)
  \/ WorkerDeadline(w)
  \/ UpdateOrderStatus(w)
  \/ CreditGetUser(w)
  \/ CreditUpdateOrder(w)
  \/ CreditUpdateBalance(w)
  \/ CreditCommit(w)

\* the server as wired in Router: withdrawals, order submissions and the
\* goroutines the submissions start
Next ==
  \/ \E d \in Debits : DebitStep(d)
  \/ \E h \in Handlers : HandlerStep(h)
  \/ \E w \in Handlers : WorkerStep(w)

Spec == Init /\ [][Next]_vars

\* the same server with a database that fails some statements
SpecFaulty == InitFaulty /\ [][Next]_vars

\* the service used through its exported methods: withdrawals, one order
\* submission, and reconciliation of a stored order started once more by
\* another caller of PollOrderStatus while or after the goroutine of the
\* submission runs
RestartStep ==
  \E x \in Callers, o \in OrderNumbers :
    orders[o] # NoOrder /\ CallPollOrderStatus(x, o)

NextService ==
  \/ \E d \in Debits : DebitStep(d)
  \/ HandlerStep(HandlerSeq[1])
  \/ \E w \in {HandlerSeq[1]} \cup Callers : WorkerStep(w)
  \/ RestartStep

SpecService == Init /\ [][NextService]_vars

\* registrations and order submissions that run concurrently, with a token of
\* any user, and the goroutines the submissions start, on a database that
\* holds an order already
RegisterStep(r) ==
  \/ \E u \in Users \cup {""} : SignUpHandler(r, u)
  \/ SetUserCheck(r)
  \/ SetUserInsert(r)
  \/ SetUserCommit(r)

SubmitStep(h) ==
  \/ \E u \in Users, b \in Bodies : NextHandler(h) /\ SendOrderHandler(h, u, b)
  \/ AddOrderSelectUser(h)
  \/ AddOrderCheck(h)
  \/ AddOrderInsert(h)
  \/ AddOrderCommit(h)
  \/ HandlerPoll(h)
  \/ HandlerRespond(h)

NextOrders ==
  \/ RegisterStep(RegistrationSeq[1])
  \/ \E h \in Handlers : SubmitStep(h)
  \/ \E w \in Handlers : WorkerStep(w)

SpecOrders == InitOrders /\ [][NextOrders]_vars

\* every operation of the store on the accounts: registrations, withdrawals,
\* one order submission and its goroutine, with a database that fails some
\* statements
NextAccounts ==
  \/ RegisterStep(RegistrationSeq[1])
  \/ \E d \in Debits : DebitStep(d)
  \/ HandlerStep(HandlerSeq[1])
  \/ WorkerStep(HandlerSeq[1])

SpecAccounts == InitFaulty /\ [][NextAccounts]_vars

\* the server without withdrawals, under the scheduling the runtime gives:
\* time passes, so a deadline passes and a sleep ends; a goroutine that can
\* run a statement of the store runs it; a select that keeps finding
\* pollCtx.Done() ready takes that case in the end (the runtime picks among
\* the ready cases uniformly at random)
StoreStep(w) ==
  \/ UpdateOrderStatus(w)
  \/ CreditGetUser(w)
  \/ CreditUpdateOrder(w)
  \/ CreditUpdateBalance(w)
  \/ CreditCommit(w)

NextLive ==
  \/ \E h \in Handlers : HandlerStep(h)
  \/ \E w \in Handlers : WorkerStep(w)

Fairness ==
  \A w \in Handlers :
    /\ WF_vars(DeadlineElapses(w))
    /\ WF_vars(WorkerWake(w))
    /\ WF_vars(StoreStep(w))
    /\ SF_vars(WorkerDeadline(w))

SpecLive == Init /\ [][NextLive]_vars /\ Fairness

\* the server while the accrual service answers every request with 200 and
\* the status PROCESSING
Processing == [code |-> "200", status |-> "PROCESSING", accrual |-> {}, retry |-> ""]

NextPending ==
  \/ \E h \in Handlers : HandlerStep(h)
  \/ \E w \in Handlers :
       \/ Tick(w)
       \/ DeadlineElapses(w)
       \/ WorkerPoll(w, Processing)
       \/ WorkerDeadline(w)

SpecPending == Init /\ [][NextPending]_vars

\* one order submission and its goroutine in time, while the accrual service
\* answers 204 or 429 with any of the Retry-After headers
RateLimited ==
  {[code |-> "429", status |-> "none", accrual |-> {}, retry |-> hdr] :
      hdr \in RetryHeaders}
NotRegistered == [code |-> "204", status |-> "none", accrual |-> {}, retry |-> ""]

NextTimed ==
  \/ HandlerStep(HandlerSeq[1])
  \/ TickerFires(HandlerSeq[1])
  \/ DeadlinePasses(HandlerSeq[1])
  \/ \E resp \in RateLimited \cup {NotRegistered} : WorkerPoll(HandlerSeq[1], resp)
  \/ WorkerWakes(HandlerSeq[1])
  \/ WorkerDeadline(HandlerSeq[1])
  \/ Advance

SpecTimed == Init /\ [][NextTimed]_vars

\* one order submission and its goroutine in time, with http.Get as two
\* steps: the request, and its response (204 or 429) any time later, while
\* the ticker goes on sending ticks
NextSequential ==
  \/ HandlerStep(HandlerSeq[1])
  \/ TickerFires(HandlerSeq[1])
  \/ DeadlinePasses(HandlerSeq[1])
  \/ WorkerGet(HandlerSeq[1])
  \/ \E resp \in RateLimited \cup {NotRegistered} : WorkerResponse(HandlerSeq[1], resp)
  \/ WorkerWakes(HandlerSeq[1])
  \/ WorkerDeadline(HandlerSeq[1])
  \/ Advance

SpecSequential == Init /\ [][NextSequential]_vars

\* order submissions and their goroutines while the accrual service answers
\* every request with 200 and a body that names any status with or without
\* an accrual, on a database that fails some statements
Reports ==
  {[code |-> "200", status |-> st, accrual |-> a, retry |-> ""] :
      st \in AccrualStatuses, a \in Accruals}

NextReports ==
  \/ \E h \in Handlers : HandlerStep(h)
  \/ \E w \in Handlers :
       \/ Tick(w)
       \/ DeadlineElapses(w)
       \/ \E resp \in Reports : WorkerPoll(w, resp)
       \/ WorkerDeadline(w)
       \/ StoreStep(w)

SpecReports == InitFaulty /\ [][NextReports]_vars

\* the two operations of the service that write an order, called once by a
\* client with any order number, status and accrual, next to one order
\* submission and its goroutine, on a database that holds an order already
\* and fails some statements
NextStore ==
  \/ \E x \in Callers, o \in OrderNumbers, st \in Statuses, a \in Accruals :
       CallUpdateOrderStatusAndAccrual(x, o, st, a)
  \/ \E x \in Callers, o \in OrderNumbers, st \in Statuses :
       CallUpdateOrderStatus(x, o, st)
  \/ \E x \in Callers : StoreStep(x)
  \/ HandlerStep(HandlerSeq[1])
  \/ WorkerStep(HandlerSeq[1])

InitStore == OneOrder /\ Idle /\ NoCall /\ faults = MaxFailures

SpecStore == InitStore /\ [][NextStore]_vars

\* one withdrawal and one order submission with any body, also a signed one,
\* and any sum, also a negative one, and the goroutine of the submission
NextRequests ==
  \/ \E u \in users, b \in Bodies \cup SignedBodies, s \in (0 - 1)..MaxSum :
       WithdrawPointsHandler(DebitSeq[1], u, b, s)
  \/ SpendSelect(DebitSeq[1])
  \/ SpendUpdate(DebitSeq[1])
  \/ SpendCommit(DebitSeq[1])
  \/ \E u \in users, b \in Bodies \cup SignedBodies :
       SendOrderHandler(HandlerSeq[1], u, b)
  \/ AddOrderSelectUser(HandlerSeq[1])
  \/ AddOrderCheck(HandlerSeq[1])
  \/ AddOrderInsert(HandlerSeq[1])
  \/ AddOrderCommit(HandlerSeq[1])
  \/ HandlerPoll(HandlerSeq[1])
  \/ HandlerRespond(HandlerSeq[1])
  \/ WorkerStep(HandlerSeq[1])

SpecRequests == InitOrders /\ [][NextRequests]_vars

\* registrations that run concurrently, with any login, on the database as
\* the migration leaves it, which fails some statements
NextRegister == \E r \in Registrations : RegisterStep(r)

InitRegister == NoUser /\ Idle /\ NoCall /\ faults = MaxFailures

SpecRegister == InitRegister /\ [][NextRegister]_vars

\* isValidLuhn called on its own with any of the strings of LuhnInputs
InitLuhn ==
  /\ OneUser /\ Idle /\ faults = 0
  /\ lNumber \in LuhnInputs
  /\ lResult = "none"

CallIsValidLuhn ==
  /\ lResult = "none"
  /\ lResult' = IF isValidLuhn(lNumber) THEN "true" ELSE "false"
  /\ UNCHANGED <<dbVars, lockVars, faults, debitVars, regVars, handlerVars,
                 workerVars, clockVars, lNumber>>

SpecLuhn == InitLuhn /\ [][CallIsValidLuhn]_vars

\* one order submission and its goroutine in time, while the accrual service
\* does not know the order (204) or reports a status that is not final
NotFinal ==
  {NotRegistered}
  \cup {[code |-> "200", status |-> st, accrual |-> {}, retry |-> ""] :
          st \in {"NEW", "PROCESSING", "REGISTERED"}}

NextWaiting ==
  \/ HandlerStep(HandlerSeq[1])
  \/ TickerFires(HandlerSeq[1])
  \/ DeadlinePasses(HandlerSeq[1])
  \/ \E resp \in NotFinal : WorkerPoll(HandlerSeq[1], resp)
  \/ WorkerDeadline(HandlerSeq[1])
  \/ Advance

SpecWaiting == Init /\ [][NextWaiting]_vars

\* one order submission and its goroutine in time, while every request to the
\* accrual service fails: http.Get returns an error, the body of a 200
\* response does not decode, or the status code is none of 200, 204, 429
Transient ==
  {[code |-> c, status |-> "none", accrual |-> {}, retry |-> ""] :
      c \in {"neterr", "decodeerr", "500"}}

NextTransient ==
  \/ HandlerStep(HandlerSeq[1])
  \/ TickerFires(HandlerSeq[1])
  \/ DeadlinePasses(HandlerSeq[1])
  \/ \E resp \in Transient : WorkerPoll(HandlerSeq[1], resp)
  \/ WorkerDeadline(HandlerSeq[1])
  \/ Advance

SpecTransient == Init /\ [][NextTransient]_vars

TypeOK ==
  /\ users \subseteq Users
  /\ \A u \in Users : balance[u] \in Int /\ total_spent[u] \in Int
  /\ \A o \in OrderNumbers :
       orders[o] = NoOrder \/ (orders[o].user \in Users /\ orders[o].status \in Statuses)

\* ------------------------------------------------------------------ claims
Terminal == {"PROCESSED", "INVALID"}

\* the stored order o is PROCESSED with a positive accrual
Credited(o) ==
  orders[o] # NoOrder /\ Credits(orders[o].status, orders[o].accrual)

\* a goroutine that is inside UpdateOrderStatusAndAccrual or UpdateOrderStatus
InStore(w) == wpc[w] \in {"upd_status", "tx_getuser", "tx_order", "tx_balance", "tx_commit"}

\* C1: at most one 'earn' transaction exists per order number, also when two
\* goroutines run for the same order and both receive PROCESSED with a
\* positive accrual.
C1_OneEarnPerOrder ==
  \A o \in OrderNumbers : CountTx(ledger, o, "earn") <= 1

\* C2: in every committed state every account's balance is >= 0, whatever the
\* interleaving of debits and credits whose read and write are separate steps.
C2_BalanceNonNegative ==
  \A u \in users : balance[u] >= 0

\* two debits read the same sufficient balance, one committed and emptied the
\* account, and the CHECK constraint stopped the update of the other (no
\* statement failed for a reason of the database itself)
C2_Witness ==
  \E d, e \in Debits :
    /\ d # e /\ dUser[d] = dUser[e]
    /\ dRes[d] = "ok" /\ dRes[e] = "error"
    /\ dCur[e] >= dSum[e] /\ dSum[e] > 0
    /\ balance[dUser[d]] = 0
    /\ faults = 0

\* every order is either credited in full or not at all
CreditWhole ==
  /\ \A o \in OrderNumbers :
       IF Credited(o)
         THEN /\ CountTx(ledger, o, "earn") = 1
              /\ \E a \in orders[o].accrual :
                   BagIn([user |-> orders[o].user, order |-> o,
                          points |-> a, type |-> "earn"], ledger)
         ELSE CountTx(ledger, o, "earn") = 0
  /\ \A u \in users :
       balance[u] + total_spent[u] = SumPoints(ledger, u, "earn")

C4_ProcessedIsStored ==
  \A w \in Workers :
    (wpc[w] = "done" /\ Credits(wResp[w].status, wResp[w].accrual)) =>
      /\ orders[wOrder[w]].status = "PROCESSED"
      /\ orders[wOrder[w]].accrual = wResp[w].accrual
      /\ CountTx(ledger, wOrder[w], "earn") = 1
      /\ BagIn([user |-> orders[wOrder[w]].user, order |-> wOrder[w],
                points |-> Amount(w), type |-> "earn"], ledger)

\* C5: Credit and Debit on one account are linearizable: no other credit or
\* debit on the account commits between a debit's balance read and its
\* balance write, so the balance a debit is about to write on is the one it read.
C5_ReadWriteIndivisible ==
  \A d \in Debits : dpc[d] = "update" => balance[dUser[d]] = dCur[d]

\* C6: every Debit on an existing account ends in success or in
\* InsufficientFundsError, whatever the interleaving.
C6_SuccessOrInsufficient ==
  \A d \in Debits :
    (dpc[d] = "done" /\ dSum[d] > 0) => dRes[d] \in {"ok", "ErrInsufficientFunds"}

\* C7: a goroutine whose order is stored as PROCESSED or INVALID changes
\* neither the order nor a balance nor the transaction log.
C7_TerminalOrderUntouched ==
  [][\A w \in Workers :
       (InStore(w) /\ wpc'[w] = "done" /\ orders[wOrder[w]].status \in Terminal)
         => UNCHANGED dbVars]_vars

\* C8: in every committed state, for every account, balance equals the sum of
\* its 'earn' points minus the sum of its 'spend' points and total_spent
\* equals the sum of its 'spend' points.
C8_LedgerConsistent ==
  \A u \in users :
    /\ balance[u] = SumPoints(ledger, u, "earn") - SumPoints(ledger, u, "spend")
    /\ total_spent[u] = SumPoints(ledger, u, "spend")

\* an account with a committed credit and a committed debit
C8_Witness ==
  \E u \in users :
    /\ SumPoints(ledger, u, "earn") > 0
    /\ SumPoints(ledger, u, "spend") > 0

\* C9: a Debit whose amount exceeds the balance it finds fails with
\* InsufficientFundsError and leaves balance, total_spent and the log
\* unchanged; no 'spend' transaction of a rejected debit is ever recorded.
C9_InsufficientNoMutation ==
  /\ [][\A d \in Debits :
          (dpc[d] = "select" /\ dpc'[d] # "select" /\ dSum[d] > balance[dUser[d]])
            => /\ dRes'[d] = "ErrInsufficientFunds"
               /\ dpc'[d] = "done"
               /\ UNCHANGED dbVars]_vars
  /\ [](\A d \in Debits :
          dRes[d] = "ErrInsufficientFunds"
            => CountTx(ledger, dOrder[d], "spend") = 0)

\* a debit rejected for insufficient funds
C9_Witness ==
  \E d \in Debits :
    dpc[d] = "done" /\ dRes[d] = "ErrInsufficientFunds" /\ dSum[d] > dCur[d]

\* C10: a successful Debit of s decreases the balance by exactly s, increases
\* total_spent by exactly s and appends exactly one 'spend' transaction with
\* the given order number and s points.
C10_DebitEffect ==
  [][\A d \in Debits :
       (dRes[d] # "ok" /\ dRes'[d] = "ok") =>
         /\ balance' = [balance EXCEPT ![dUser[d]] = @ - dSum[d]]
         /\ total_spent' = [total_spent EXCEPT ![dUser[d]] = @ + dSum[d]]
         /\ ledger' = ledger (+) SetToBag({[user |-> dUser[d],
                                            order |-> dOrder[d],
                                            points |-> dSum[d],
                                            type |-> "spend"]})
         /\ UNCHANGED <<users, orders>>]_vars

\* a debit that succeeded
C10_Witness ==
  \E d \in Debits :
    /\ dRes[d] = "ok" /\ dSum[d] > 0
    /\ CountTx(ledger, dOrder[d], "spend") = 1
    /\ total_spent[dUser[d]] >= dSum[d]

\* C11: a successful credit of a > 0 followed directly by GetUserBalance of
\* the credited account returns a balance exactly a higher than GetUserBalance
\* returned before the credit and the same total_spent.
C11_CreditThenGetBalance ==
  [][\A w \in Workers :
       (wErr[w] # "ok" /\ wErr'[w] = "ok" /\ Credits(wResp[w].status, wResp[w].accrual))
         => LET before == GetUserBalance(wUserID[w])
            IN  GetUserBalance(wUserID[w])' =
                  [err |-> "none",
                   balance |-> before.balance + Amount(w),
                   total_spent |-> before.total_spent]]_vars

\* a credit was committed on an account that had spent points before, and
\* GetUserBalance reports both
C11_Witness ==
  \E w \in Workers :
    /\ wErr[w] = "ok" /\ Credits(wResp[w].status, wResp[w].accrual)
    /\ GetUserBalance(wUserID[w]).err = "none"
    /\ GetUserBalance(wUserID[w]).balance >= Amount(w)
    /\ GetUserBalance(wUserID[w]).total_spent > 0

\* C12: no step of SpendPoints, UpdateOrderStatusAndAccrual, UpdateOrderStatus,
\* AddOrder or SetUser lowers the total_spent of an account.
C12_TotalSpentMonotone ==
  [][\A u \in Users : total_spent'[u] >= total_spent[u]]_vars

\* an account has spent points, and a registration has added another account
\* since
C12_Witness ==
  \E u \in users, r \in Registrations :
    /\ total_spent[u] > 0
    /\ rRes[r] = "ok" /\ rUser[r] # u
    /\ total_spent[rUser[r]] = 0

\* the goroutines started for order number o
WorkersOf(o) == {w \in Workers : wpc[w] # "idle" /\ wOrder[w] = o}

\* C13: a goroutine is started by a submission exactly when the submission
\* is accepted (AddOrder returned nil), at most one goroutine runs per order
\* number, and a submission answered AlreadySubmittedBySameUser,
\* OwnedByOtherUser, UserNotFound or 422 has started none.
C13_WorkerIffAccepted ==
  /\ \A h \in Handlers :
       /\ hpc[h] = "done" => (hRes[h] = "Accepted" <=> wpc[h] # "idle")
       /\ wpc[h] # "idle" =>
            /\ hpc[h] = "respond" \/ hRes[h] = "Accepted"
            /\ wOrder[h] = hOrder[h]
  /\ \A o \in OrderNumbers : Cardinality(WorkersOf(o)) <= 1

\* an accepted submission has started its one goroutine, and a rejected
\* submission has started none
C13_Witness ==
  \E g, h \in Handlers :
    /\ hRes[g] = "Accepted" /\ WorkersOf(hOrder[g]) = {g}
    /\ hRes[h] \in {"AlreadySubmittedBySameUser", "OwnedByOtherUser",
                     "UserNotFound", "422"}
    /\ wpc[h] = "idle"

\* order number o is stored for user u
StoredFor(o, u) == o \in OrderNumbers /\ orders[o] # NoOrder /\ orders[o].user = u

\* C14: every submission of an order number by the user it is already stored
\* for ends in AlreadySubmittedBySameUser, adds no row and leaves the stored
\* order's owner, status and accrual unchanged.
C14_ResubmitSameUser ==
  [][\A h \in Handlers :
       (/\ hpc[h] \in {"ao_user", "ao_check"}
        /\ StoredFor(hOrder[h], hUser[h])
        /\ hpc'[h] # hpc[h])
       => /\ \/ hpc'[h] = "ao_check"
             \/ hpc'[h] = "done" /\ hRes'[h] = "AlreadySubmittedBySameUser"
          /\ UNCHANGED dbVars]_vars

\* the same stored order number was submitted twice more by its owner and
\* both submissions were answered AlreadySubmittedBySameUser; one row exists
C14_Witness ==
  \E g, h \in Handlers :
    /\ g # h /\ hOrder[g] = hOrder[h] /\ hUser[g] = hUser[h]
    /\ hRes[g] = "AlreadySubmittedBySameUser"
    /\ hRes[h] = "AlreadySubmittedBySameUser"
    /\ StoredFor(hOrder[h], hUser[h])
    /\ orderRows[hOrder[h]] = 1

\* C15: at most one row exists per order number in every reachable state,
\* and a submission by a registered user of a number stored for another user
\* ends in OwnedByOtherUser, adds no row and leaves the stored order's owner,
\* status and accrual unchanged.
C15_OrderNumberUnique ==
  /\ [](\A o \in OrderNumbers :
          orderRows[o] <= 1 /\ (orderRows[o] = 0 <=> orders[o] = NoOrder))
  /\ [][\A h \in Handlers :
          (/\ hpc[h] \in {"ao_user", "ao_check"}
           /\ hUser[h] \in users
           /\ orders[hOrder[h]] # NoOrder /\ orders[hOrder[h]].user # hUser[h]
           /\ hpc'[h] # hpc[h])
          => /\ \/ hpc'[h] = "ao_check"
                \/ hpc'[h] = "done" /\ hRes'[h] = "OwnedByOtherUser"
             /\ UNCHANGED dbVars]_vars

\* a submission of a number stored for another user was rejected and the
\* number still has its one row
C15_Witness ==
  \E h \in Handlers :
    /\ hRes[h] = "OwnedByOtherUser"
    /\ orders[hOrder[h]].user # hUser[h]
    /\ orderRows[hOrder[h]] = 1

\* C16: every submission of a Luhn-valid number by an existing user ends in
\* Accepted, AlreadySubmittedBySameUser or OwnedByOtherUser, also when two
\* submissions of the same number that is not stored yet run concurrently.
C16_SubmitOutcomes ==
  \A h \in Handlers :
    hpc[h] = "done" =>
      hRes[h] \in {"Accepted", "AlreadySubmittedBySameUser", "OwnedByOtherUser",
                   "UserNotFound", "422"}

\* C17: the goroutine does not depend on the lifetime of the request that
\* started it: once the handler has answered and the request's context is
\* cancelled, no statement of the goroutine's terminal write fails unless the
\* database itself fails.
C17_IndependentOfRequest ==
  [][\A w \in Workers :
       (InStore(w) /\ wCtx[w] # Background /\ reqDone[wCtx[w]] /\ faults' = faults)
         => wErr'[w] # "error"]_vars

C19_NothingAfterDeadline ==
  [][\A w \in Workers :
       expired[w] =>
         /\ ~(wpc[w] = "select" /\ tick[w] /\ ~tick'[w] /\ wpc'[w] # "done")
         /\ (InStore(w) /\ wpc'[w] # wpc[w]) => UNCHANGED dbVars]_vars

\* C20 as stated: a goroutine that returns at its deadline while the accrual
\* service keeps reporting PROCESSING leaves the order stored as PROCESSING.
C20_StoredProcessing ==
  \A w \in Workers :
    wpc[w] = "done" => orders[wOrder[w]].status = "PROCESSING"

\* C20: a goroutine that returns at its deadline while the accrual service
\* keeps reporting PROCESSING leaves the order stored as NEW without accrual
\* - a status that is not final is never stored - and no balance has changed
\* and no transaction is recorded for the order.
C20_DeadlineWhilePending ==
  \A w \in Workers :
    wpc[w] = "done" =>
      /\ orders[wOrder[w]] =
           [user |-> hUser[w], status |-> "NEW", accrual |-> {}]
      /\ CountTx(ledger, wOrder[w], "earn") = 0
      /\ balance[hUser[w]] = 0 /\ total_spent[hUser[w]] = 0

\* the goroutine of an accepted order has returned at its deadline
C20_Witness ==
  \E w \in Workers :
    /\ wpc[w] = "done" /\ hRes[w] = "Accepted"
    /\ orders[wOrder[w]].status = "NEW"

\* the seconds d of claim C21 for a Retry-After header: the integer of the
\* header when there is one, 30 when the header is missing or no integer
C21_Hint(hdr) ==
  CASE hdr = "2" -> 2
    [] hdr = "7" -> 7
    [] hdr = "-1" -> 0 - 1
    [] OTHER -> 30

\* C21: a goroutine that got a 429 response issues no request and writes
\* nothing until at least d seconds have passed since the response, d being
\* the integer of the Retry-After header or 30 without one; then it is back in
\* its select and polls on (it has not returned).
C21_RateLimitedSuspends ==
  [][\A w \in Workers :
       /\ (wpc[w] = "select" /\ wpc'[w] = "sleep") =>
            rlAt'[w] = now /\ UNCHANGED dbVars
       /\ wpc[w] = "sleep" =>
            /\ ~(tick[w] /\ ~tick'[w])
            /\ UNCHANGED dbVars
            /\ wpc'[w] \in {"sleep", "select"}
            /\ wpc'[w] = "select" => now >= rlAt[w] + C21_Hint(rlHdr[w])]_vars

\* seven seconds after a 429 response with Retry-After: 7 the goroutine is back
\* in its select, where the tick it slept through waits for it
C21_Witness ==
  \E w \in Workers :
    /\ wpc[w] = "select" /\ tick[w]
    /\ rlHdr[w] = "7" /\ now = rlAt[w] + 7 /\ rlAt[w] > 0


\* the place of a status in the order NEW, PROCESSING, terminal
C22_Rank(st) ==
  CASE st = "NEW" -> 0
    [] st = "PROCESSING" -> 1
    [] OTHER -> 2

\* C22: the stored status of an order never moves back in the order NEW,
\* PROCESSING, terminal, and an order stored as PROCESSED or INVALID keeps its
\* status and its accrual whatever operation runs.
C22_StatusForward ==
  [][\A o \in OrderNumbers :
       orders[o] # NoOrder =>
         /\ orders'[o] # NoOrder
         /\ C22_Rank(orders'[o].status) >= C22_Rank(orders[o].status)
         /\ orders[o].status \in Terminal => orders'[o] = orders[o]]_vars


C24_CreditIffProcessedPositive ==
  [][\A w \in Workers :
       (InStore(w) /\ wErr[w] # "ok" /\ wErr'[w] = "ok") =>
         /\ \A o \in OrderNumbers \ {wOrder[w]} : orders'[o] = orders[o]
         /\ UNCHANGED <<users, total_spent>>
         /\ IF /\ wResp[w].status = "PROCESSED"
               /\ \E a \in wResp[w].accrual : a > 0
              THEN \E a \in wResp[w].accrual :
                     /\ balance' = [balance EXCEPT ![orders[wOrder[w]].user] = @ + a]
                     /\ ledger' = ledger (+) SetToBag({[user |-> orders[wOrder[w]].user,
                                                        order |-> wOrder[w],
                                                        points |-> a,
                                                        type |-> "earn"]})
              ELSE UNCHANGED <<balance, ledger>>]_vars

\* UpdateOrderStatusAndAccrual was called with INVALID and a positive accrual
\* and has committed: the order carries both, no balance has changed and no
\* transaction is recorded
C24_Witness ==
  \E x \in Callers :
    /\ wErr[x] = "ok" /\ wResp[x] = [status |-> "INVALID", accrual |-> {1}]
    /\ orders[wOrder[x]].status = "INVALID" /\ orders[wOrder[x]].accrual = {1}
    /\ ledger = EmptyBag
    /\ \A u \in Users : balance[u] = 0 /\ total_spent[u] = 0


RECURSIVE LuhnChecksum(_, _)
\* the Luhn checksum of the digits s[1..i] of the digit string s: every second
\* digit from the right is doubled, 9 is taken from a doubled value above 9
LuhnChecksum(s, i) ==
  IF i = 0 THEN 0
  ELSE LET d == s[i] - 48
           v == IF (Len(s) - i) % 2 = 1
                  THEN IF 2 * d > 9 THEN 2 * d - 9 ELSE 2 * d
                  ELSE d
       IN  v + LuhnChecksum(s, i - 1)

\* s is a Luhn number: a non-empty string of decimal digits whose Luhn
\* checksum is divisible by 10
LuhnNumber(s) ==
  /\ Len(s) > 0
  /\ \A i \in 1..Len(s) : s[i] \in 48..57
  /\ LuhnChecksum(s, Len(s)) % 10 = 0

\* C25: an order submission whose body is empty or no Luhn number is answered
\* 422 and has added no order and started no goroutine; a withdrawal with an
\* empty order number or a sum <= 0 is answered 400, whatever its order
\* number, and one with another order number that is no Luhn number 422; a
\* rejected request has called no store operation and has left every balance,
\* total_spent and the log unchanged.
C25_InvalidRejected ==
  /\ [](\A h \in Handlers :
          (hpc[h] # "idle" /\ ~LuhnNumber(Bytes(hOrder[h]))) =>
            /\ hpc[h] = "done" /\ hRes[h] = "422"
            /\ wpc[h] = "idle"
            /\ hOrder[h] \in OrderNumbers => orders[hOrder[h]] = NoOrder)
  /\ [](\A d \in Debits :
          dpc[d] # "idle" =>
            IF Len(Bytes(dOrder[d])) = 0 \/ dSum[d] <= 0
              THEN dpc[d] = "done" /\ dRes[d] = "400"
              ELSE ~LuhnNumber(Bytes(dOrder[d])) =>
                     dpc[d] = "done" /\ dRes[d] = "422")
  /\ [][/\ \A h \in Handlers :
             (hpc[h] = "idle" /\ hRes'[h] = "422") => UNCHANGED dbVars
        /\ \A d \in Debits :
             (dpc[d] = "idle" /\ dRes'[d] \in {"400", "422"}) => UNCHANGED dbVars]_vars


\* C26: in every committed state a username has at most one users row and
\* exactly as many user_balance rows as users rows; a registration that
\* succeeds adds the user together with a balance row of balance 0 and
\* total_spent 0, and one that fails, at whatever statement, leaves the
\* database as it was - so two registrations of one username that run
\* concurrently leave one user with one balance row.
C26_UserWithBalance ==
  /\ [](\A u \in Users :
          /\ userRows[u] <= 1
          /\ balanceRows[u] = userRows[u]
          /\ u \in users <=> userRows[u] = 1)
  /\ [][/\ \A u \in Users :
             (u \notin users /\ u \in users') =>
               balance'[u] = 0 /\ total_spent'[u] = 0
        /\ \A r \in Registrations :
             (rRes[r] = "none" /\ rRes'[r] \notin {"none", "ok"}) => UNCHANGED dbVars]_vars

\* two registrations of one username both found the name free; one committed
\* and the INSERT of the other failed on the UNIQUE constraint (the database
\* did not fail on its own); the name has one users row and one balance row
C26_Witness ==
  \E q, r \in Registrations :
    /\ q # r /\ rUser[q] = rUser[r]
    /\ rRes[q] = "ok" /\ rRes[r] = "500"
    /\ faults = MaxFailures
    /\ userRows[rUser[q]] = 1 /\ balanceRows[rUser[q]] = 1


\* C27: isValidLuhn returns true exactly for the Luhn numbers - the non-empty
\* strings of decimal digits with a Luhn checksum divisible by 10 - and false
\* for every other string: the empty one, one with a sign or another byte
\* that is no digit, a digit string of any length with a wrong check digit.
C27_LuhnExact ==
  lResult # "none" => (lResult = "true" <=> LuhnNumber(lNumber))


\* C28: while the accrual service answers 204 or a status that is not final,
\* the goroutine calls no operation of the store: every order keeps its
\* stored status and accrual, every balance and the log stay unchanged, and
\* after each answer the goroutine is back in its select, which it leaves
\* for good only at its deadline.
C28_WriteOnlyWhenFinal ==
  /\ [](\A w \in Workers :
          ~InStore(w) /\ wErr[w] = "none" /\ wResp[w].status = "none")
  /\ [][\A w \in Workers :
          /\ Running(w) => UNCHANGED dbVars
          /\ (wpc[w] = "select" /\ wpc'[w] # "select") =>
               expired[w] /\ wpc'[w] = "done"]_vars

\* two ticker periods after its start the goroutine has taken both ticks and
\* received two answers that were not final; it waits for the next tick and
\* the order is stored as NEW
C28_Witness ==
  \E w \in Workers :
    /\ wpc[w] = "select" /\ ~tick[w]
    /\ now = wStart[w] + 2 * TickerPeriod /\ nextTick[w] > now
    /\ orders[wOrder[w]] = [user |-> hUser[w], status |-> "NEW", accrual |-> {}]
    /\ ledger = EmptyBag

\* C29: a request to the accrual service that fails - network error, body
\* that does not decode, unexpected status code - ends neither the goroutine
\* nor anything in the store: the goroutine writes nothing, returns only at
\* its deadline, and is back in its select for the next tick of the ticker
\* (it does not sleep).
C29_TransientNotTerminal ==
  [][\A w \in Workers :
       (wpc[w] = "select" /\ tick[w] /\ ~expired[w] /\ ~tick'[w]) =>
         /\ wpc'[w] = "select"
         /\ nextTick'[w] = nextTick[w] /\ nextTick[w] <= now + TickerPeriod
         /\ wErr'[w] = "none" /\ wResp'[w] = wResp[w]
         /\ UNCHANGED dbVars]_vars

\* all requests of the first minute have failed, and the goroutine waits in
\* its select for the next tick
C29_Witness ==
  \E w \in Workers :
    /\ wpc[w] = "select" /\ ~tick[w] /\ ~expired[w]
    /\ now = wStart[w] + 12 * TickerPeriod /\ nextTick[w] = now + TickerPeriod
    /\ wErr[w] = "none"


\* C30: a goroutine whose store write of a final answer fails on the database
\* before its deadline does not return: it stays in its loop, so that a later
\* poll can write the answer again.
C30_FailedWriteRetried ==
  [][\A w \in Workers :
       (InStore(w) /\ ~expired[w] /\ faults' < faults
          /\ wErr[w] # "error" /\ wErr'[w] = "error") =>
         wpc'[w] # "done"]_vars


\* C31: a goroutine has at most one request to the accrual service in flight.
\* It sends a request only from its select, when the response of the previous
\* one is there and the sleep or the store call that followed it is over, and
\* while a request is in flight it does nothing but wait for the response,
\* also when ticks arrive in the meantime.
C31_PollsSequential ==
  /\ [](\A w \in Workers :
          /\ inFlight[w] \in {0, 1}
          /\ inFlight[w] = 1 <=> wpc[w] = "get")
  /\ [][\A w \in Workers :
          inFlight'[w] > inFlight[w] => inFlight[w] = 0 /\ wpc[w] = "select"]_vars

\* a request is in flight after an earlier one was answered with 429, and a
\* tick that arrived since the request waits in the ticker's channel
C31_Witness ==
  \E w \in Workers :
    /\ wpc[w] = "get" /\ inFlight[w] = 1 /\ tick[w]
    /\ rlAt[w] > wStart[w] /\ now > rlAt[w] + RetryAfter(rlHdr[w])


C33_AccrualOnlyProcessed ==
  \A o \in OrderNumbers :
    orders[o] # NoOrder /\ orders[o].accrual # {} => orders[o].status = "PROCESSED"

\* the accrual service reported INVALID together with an accrual, and the
\* order is stored as INVALID without an accrual
C33_Witness ==
  \E w \in Workers :
    /\ wpc[w] = "done" /\ wErr[w] = "ok"
    /\ wResp[w] = [status |-> "INVALID", accrual |-> {1}]
    /\ orders[wOrder[w]].status = "INVALID" /\ orders[wOrder[w]].accrual = {}


\* C34: no step removes an order row or changes its owner; the status and the
\* accrual of a stored order change only in the step that ends a store call
\* of a goroutine polling that order; and every row of the transaction log
\* stays in it, unchanged, in every later state.
C34_AppendOnly ==
  [][/\ \A o \in OrderNumbers :
          orders[o] # NoOrder =>
            /\ orders'[o] # NoOrder
            /\ orders'[o].user = orders[o].user
            /\ orderRows'[o] >= orderRows[o]
            /\ (orders'[o].status # orders[o].status
                  \/ orders'[o].accrual # orders[o].accrual) =>
                 \E w \in Workers :
                   wOrder[w] = o /\ InStore(w) /\ wpc'[w] = "done"
     /\ \A r \in BagToSet(ledger) : CopiesIn(r, ledger') >= CopiesIn(r, ledger)]_vars

\* two orders are stored as PROCESSED and the log holds the earn transaction
\* of each and a spend transaction
C34_Witness ==
  /\ \A o \in {"18", "26"} :
       orders[o].status = "PROCESSED" /\ CountTx(ledger, o, "earn") = 1
  /\ \E r \in BagToSet(ledger) : r.type = "spend"


RECURSIVE C35_Sum(_, _)
\* the sum of f[x] over the processes x of S
C35_Sum(f, S) ==
  IF S = {} THEN 0
  ELSE LET x == CHOOSE y \in S : TRUE IN f[x] + C35_Sum(f, S \ {x})

\* the debits of u that committed, and the goroutines that committed a credit
\* of u
C35_Debited(u) == {d \in Debits : dRes[d] = "ok" /\ dUser[d] = u}
C35_Credited(u) ==
  {w \in Workers : wErr[w] = "ok" /\ wUserID[w] = u
                     /\ Credits(wResp[w].status, wResp[w].accrual)}

\* C35: whatever the interleaving, the balance of an account (0 at first) is
\* the sum of the accruals of the credits that committed minus the sum of the
\* debits that committed, and its total_spent is the sum of those debits: no
\* committed update is lost.
C35_NoLostUpdate ==
  \A u \in users :
    /\ balance[u] = C35_Sum([w \in Workers |-> Amount(w)], C35_Credited(u))
                      - C35_Sum(dSum, C35_Debited(u))
    /\ total_spent[u] = C35_Sum(dSum, C35_Debited(u))

\* two debits of one account read the same balance before either wrote, and
\* both committed, as did two credits of the account
C35_Witness ==
  \E u \in users :
    /\ C35_Debited(u) = Debits
    /\ \A d \in Debits : dCur[d] = 2 /\ dSum[d] = 1
    /\ Cardinality(C35_Credited(u)) = 2
    /\ balance[u] = 0 /\ total_spent[u] = 2


\* the submissions of order number o that were answered Accepted
C36_Accepted(o) == {h \in Handlers : hRes[h] = "Accepted" /\ hOrder[h] = o}

\* C36: of the submissions of one order number, also concurrent ones by one
\* user or by several, at most one is accepted and at most one goroutine is
\* started; the number never has more than one row; the row belongs to the
\* accepted submitter; and a submission that lost against a concurrent one
\* (it fails at its insert) leaves exactly the one row of the winner.
C36_OneWinner ==
  /\ \A o \in OrderNumbers :
       /\ Cardinality(C36_Accepted(o)) <= 1
       /\ Cardinality(WorkersOf(o)) <= 1
       /\ orderRows[o] <= 1
       /\ \A h \in C36_Accepted(o) :
            orderRows[o] = 1 /\ orders[o].user = hUser[h] /\ WorkersOf(o) = {h}
  /\ \A h \in Handlers :
       (hpc[h] = "done" /\ hRes[h] = "500") =>
         /\ orderRows[hOrder[h]] = 1
         /\ wpc[h] = "idle"
         /\ \E g \in Handlers \ {h} :
              /\ hOrder[g] = hOrder[h] /\ orders[hOrder[h]].user = hUser[g]
              /\ hpc[g] \in {"poll", "respond"} \/ hRes[g] = "Accepted"

\* two users submitted a number that was not stored at the same time: one
\* was accepted, the other failed at its insert, and the number has one row
\* of the accepted user and one goroutine
C36_Witness ==
  \E g, h \in Handlers :
    /\ hOrder[g] = hOrder[h] /\ hUser[g] # hUser[h]
    /\ hRes[g] = "Accepted" /\ hRes[h] = "500"
    /\ orderRows[hOrder[g]] = 1 /\ orders[hOrder[g]].user = hUser[g]
    /\ WorkersOf(hOrder[g]) = {g}


\* C37: a goroutine that received a final answer (PROCESSED or INVALID) makes
\* one store call and returns when the call is over, whether it succeeded or
\* failed: it takes no tick and sends no request after the answer, and the
\* step that ends its store call is the only step of the goroutine that can
\* change the database.
C37_OneWriteThenReturn ==
  /\ [](\A w \in Workers :
          /\ wResp[w].status # "none" =>
               InStore(w) \/ (wpc[w] = "done" /\ wErr[w] \in {"ok", "error"})
          /\ wErr[w] # "none" => wpc[w] = "done")
  /\ [][\A w \in Workers :
          /\ (InStore(w) /\ ~InStore(w)') => wpc'[w] = "done"
          /\ wpc[w] = "done" => wpc'[w] = "done"
          /\ (wpc'[w] # wpc[w] /\ ~UNCHANGED dbVars) =>
               InStore(w) /\ wpc'[w] = "done" /\ wErr'[w] = "ok"]_vars

\* one goroutine returned after its store call succeeded and another after
\* its store call failed on the database, which left its order NEW
C37_Witness ==
  \E v, w \in Workers :
    /\ wpc[v] = "done" /\ wErr[v] = "ok" /\ orders[wOrder[v]].status \in Terminal
    /\ wpc[w] = "done" /\ wErr[w] = "error" /\ faults < MaxFailures
    /\ wResp[w].status \in Terminal /\ orders[wOrder[w]].status = "NEW"


\* the rows of user u in the transaction log are the same after the step
C38_SameLog(u) ==
  \A r \in BagToSet(ledger) \cup BagToSet(ledger') :
    r.user = u => CopiesIn(r, ledger') = CopiesIn(r, ledger)

\* balance, total_spent and transactions of user u are the same after the step
C38_SameAccount(u) ==
  /\ balance'[u] = balance[u]
  /\ total_spent'[u] = total_spent[u]
  /\ C38_SameLog(u)

\* C38: a step of SpendPoints for user U leaves the account and the
\* transactions of every other user and every order unchanged; a step of the
\* store call of a goroutine for an order owned by U leaves the account and
\* the transactions of every other user, every total_spent and every other
\* order unchanged.
C38_OwnAccountOnly ==
  [][/\ \A d \in Debits :
          (dpc[d] \in {"select", "update", "commit"} /\ dpc'[d] # dpc[d]) =>
            /\ \A u \in Users \ {dUser[d]} : C38_SameAccount(u)
            /\ orders' = orders /\ orderRows' = orderRows
     /\ \A w \in Workers :
          (InStore(w) /\ wpc'[w] # wpc[w]) =>
            /\ \A u \in Users \ {orders[wOrder[w]].user} : C38_SameAccount(u)
            /\ total_spent' = total_spent
            /\ \A o \in OrderNumbers \ {wOrder[w]} : orders'[o] = orders[o]
            /\ orderRows' = orderRows]_vars

\* u1 was credited for an order and has spent points, while the account of
\* another user, whose own withdrawal was refused, is still empty
C38_Witness ==
  \E u \in users, d, e \in Debits :
    /\ u # "u1" /\ balanceRows[u] = 1
    /\ SumPoints(ledger, "u1", "earn") > 0
    /\ dUser[d] = "u1" /\ dRes[d] = "ok"
    /\ dUser[e] = u /\ dRes[e] = "ErrInsufficientFunds"
    /\ balance[u] = 0 /\ total_spent[u] = 0
    /\ SumPoints(ledger, u, "earn") = 0 /\ SumPoints(ledger, u, "spend") = 0


====
